---- MODULE Spec2Model ----
(***************************************************************************)
(* Task orchestration engine of the travel concierge: the task model, the  *)
(* concurrent task executor with run-scoped cache and retry, the bounded   *)
(* iteration loop of TravelAgent.generate() and the session state store.   *)
(***************************************************************************)
EXTENDS Integers, Sequences, FiniteSets, TLC

\* --------------------------------------------------------- program constants
max_iterations == 3
default_max_retries == 3
max_workers == 10

\* ------------------------------------------------------------------ bounds
\* Largest number of tasks the planner oracle puts into the initial plan.
MaxPlan == 2
\* Largest number of tasks the oracle creates in one run, initial plan and
\* proposals together: one task for each pass of the loop and one more, the
\* fewest with which the plan still holds a pending task when the iteration
\* cap is reached.
MaxTasks == max_iterations + 1
\* Largest number of tasks in the plan handed to a single executor call that
\* is examined on its own.
MaxBatch == 1
\* Largest number of store operations and caller writes in one history.
MaxOps == 4

\* The four fixed categories, in the order the planner builds the mapping.
Categories == <<"flights", "hotels", "trains", "maps">>

CategorySet == {Categories[i] : i \in 1..Len(Categories)}

\* Python's None, for the optional fields and for a tool that returns nothing.
None == "None"

\* A key the run-scoped cache does not hold.
Absent == "absent"

\* Function names are character sequences (the merger compares prefixes).
fn_get_offers == <<"g", "e", "t", "_", "o">>
fn_get_route == <<"g", "e", "t", "_", "r">>
fn_find_places == <<"f", "i", "n", "d", "_", "p">>

\* What an oracle may put into one task of a plan or of a proposal: category,
\* function, agent_call_required, priority, and the shape of "request"
\* ("mapping": a dict; "list": a non-empty JSON list, which has no keys()).
TaskSpecs ==
  { [category |-> "flights", function |-> fn_get_offers,
     agent_call_required |-> TRUE, priority |-> 2, request |-> "mapping"],
    [category |-> "maps", function |-> fn_find_places,
     agent_call_required |-> FALSE, priority |-> 0, request |-> "mapping"],
    [category |-> "maps", function |-> fn_get_route,
     agent_call_required |-> TRUE, priority |-> 1, request |-> "list"] }

\* task_id values: as many as there are tasks, so that all ids can differ.
TaskIds == 1..MaxTasks

\* Success payloads of a tool (a tool may return None, e.g. response.text).
Results == {"r1", None}

\* ------------------------------------------------------------- Task model
\* Task.__init__ / __post_init__: the dataclass defaults. task_id is a digest
\* of function, request and the creation timestamp, so two tasks can carry the
\* same id; it is drawn by the caller. The last six fields are history, not
\* fields of the dataclass: the passes of the retry loop made for the task,
\* the calls of the callable among them, the passes that raised, the calls in
\* which the tool function itself raised, the last result of the callable, and
\* the cache entry of the task's id at the moment the routine read the cache.
NewTask(s, id) ==
  [ task_id |-> id,
    function |-> s.function,
    request |-> s.request,
    response |-> "",
    agent_call_required |-> s.agent_call_required,
    status |-> "pending",
    error |-> None,
    subtasks |-> <<>>,
    parent_task_id |-> 0,
    priority |-> s.priority,
    retry_count |-> 0,
    max_retries |-> default_max_retries,
    cached |-> FALSE,
    attempts |-> 0,
    calls |-> 0,
    raised |-> 0,
    tool_raised |-> 0,
    last |-> [kind |-> "none", val |-> None],
    at_dispatch |-> Absent ]

\* --------------------------------------------------------- tool registry
\* What the tool function itself does when invoked.
ToolBehaviours ==
  {[kind |-> "ok", val |-> r] : r \in Results}
    \cup {[kind |-> "error", val |-> "e_tool"], [kind |-> "raise", val |-> "x_tool"]}

\* execute_tool_by_name: the tool's result is passed on; an exception raised
\* by the tool is caught and returned as an error payload.
execute_tool_by_name(o) ==
  IF o.kind = "raise" THEN [kind |-> "error", val |-> "e_registry"] ELSE o

\* The callable handed to _execute_single_task: the registry wrapper (as
\* _execute_tasks_concurrent wires it) or the bare callable.
execute_func(mode, o) ==
  IF mode = "registry" THEN execute_tool_by_name(o) ELSE o

VARIABLES
  pc,               \* position of generate()
  exec_mode,        \* which execute_func the executor passes on
  task_structure,   \* the plan: category -> sequence of Task
  iteration_count,
  iterations,       \* self.iterations
  task_cache,       \* self.task_cache: task_id -> response, or absent
  pending_tasks,    \* the executor call's sorted list of (category, index)
  fut,              \* state of the future of each dispatched task
  cached_response,  \* the local cached_response of each started routine
  completed_count,
  failed_count,
  next_steps,       \* result of _determine_next_steps
  exec_calls,       \* history: number of executor calls
  oracle_calls,     \* history: number of next-steps oracle calls
  heap,             \* the objects (dicts and lists) of the session store's world
  state,            \* StateManager.state: address of the root dict
  saved,            \* what _save_state last wrote to the session cache
  held,             \* addresses of the values get_state() has returned
  ops,              \* history: number of store operations and caller writes
  last_op,          \* history: the kind of the last of them
  last_update,      \* history: which updates the last store operation was given
  diff,             \* what get_proposed_state_diff last returned
  history,          \* session_messages: the conversation history
  returned,         \* what generate() has returned
  actor,            \* history: the stage that took the last step of generate()
  env,              \* whether the oracle client is configured, the database answers
  sufficient,       \* history: what the clarification check has reported
  start,            \* history: the state and the conversation when the run began
  merge_call,       \* the Task objects and the plans of a call of _merge_tasks
  parse_call,       \* an oracle call: what the client did, the text, the parse
  sessions,         \* the cache databases, the template file and the agents of two sessions
  route_call,       \* a call of execute_tool_by_name: name, parameters, outcome
  rule_call,        \* a call of _merge_tasks on one category: lists before and after
  pool_call,        \* the worker pool of an executor call: queue, workers, tasks
  history_call      \* two runs of one session appending to the conversation

run_vars == <<pc, exec_mode, task_structure, iteration_count, iterations, task_cache,
              pending_tasks, fut, cached_response, completed_count, failed_count,
              next_steps, exec_calls, oracle_calls>>

store_vars == <<heap, state, saved, held, ops, last_op, last_update, diff>>

session_vars == <<history, returned, actor, env, sufficient, start>>

aux_vars == <<parse_call, sessions, route_call, rule_call, pool_call, history_call>>

rest_vars == <<run_vars, store_vars, session_vars, merge_call>>

vars == <<run_vars, store_vars, session_vars, merge_call, aux_vars>>

EmptyPlan == [c \in CategorySet |-> <<>>]

NoNextSteps == [needs_additional_tasks |-> FALSE, new_tasks |-> EmptyPlan]

\* ----------------------------------------------------------- the planner
\* Sequences of at most n task descriptions an oracle can name, with the id
\* each task gets when it is constructed. Ids only matter by equality, so a
\* task either repeats an id the run has seen (the largest so far is m) or
\* takes the next unused one.
RECURSIVE TaskLists(_, _)
TaskLists(n, m) ==
  IF n = 0 THEN {<<>>}
  ELSE {<<>>} \cup
       UNION { UNION { { <<[spec |-> s, id |-> id]>> \o rest :
                           rest \in TaskLists(n - 1, IF id > m THEN id ELSE m) } :
                       id \in {i \in TaskIds : i <= m + 1} } :
               s \in TaskSpecs }

RECURSIVE TasksOf(_, _)
TasksOf(l, c) ==
  IF l = <<>> THEN <<>>
  ELSE IF Head(l).spec.category = c
       THEN <<NewTask(Head(l).spec, Head(l).id)>> \o TasksOf(Tail(l), c)
       ELSE TasksOf(Tail(l), c)

\* _travel_planner / _determine_next_steps: the oracle's task descriptions
\* become Task objects, grouped by category in list order.
ByCategory(l) == [c \in CategorySet |-> TasksOf(l, c)]

\* ---------------------------------------------------------- the executor
TaskAt(ts, ref) == ts[ref[1]][ref[2]]

SetTask(ts, ref, t) == [ts EXCEPT ![ref[1]][ref[2]] = t]

RECURSIVE PendingFromAny(_, _, _)
PendingFromAny(ts, c, i) ==
  IF i > Len(ts[c]) THEN <<>>
  ELSE <<(<<c, i>>)>> \o PendingFromAny(ts, c, i + 1)

RECURSIVE PendingFrom(_, _, _)
PendingFrom(ts, c, i) ==
  IF i > Len(ts[c]) THEN <<>>
  ELSE (IF ts[c][i].status = "pending" THEN <<(<<c, i>>)>> ELSE <<>>)
         \o PendingFrom(ts, c, i + 1)

\* Lines 446-451: every top-level task of every category whose status is
\* pending, in category order and list order (subtasks are not visited).
RECURSIVE CollectFrom(_, _)
CollectFrom(ts, k) ==
  IF k > Len(Categories) THEN <<>>
  ELSE PendingFrom(ts, Categories[k], 1) \o CollectFrom(ts, k + 1)

CollectPending(ts) == CollectFrom(ts, 1)

\* Insert ref into a list sorted by priority descending, after every entry of
\* equal priority.
RECURSIVE InsertByPriority(_, _, _)
InsertByPriority(ts, sorted, ref) ==
  IF sorted = <<>> THEN <<ref>>
  ELSE IF TaskAt(ts, Head(sorted)).priority >= TaskAt(ts, ref).priority
       THEN <<Head(sorted)>> \o InsertByPriority(ts, Tail(sorted), ref)
       ELSE <<ref>> \o sorted

RECURSIVE SortFrom(_, _, _)
SortFrom(ts, refs, sorted) ==
  IF refs = <<>> THEN sorted
  ELSE SortFrom(ts, Tail(refs), InsertByPriority(ts, sorted, Head(refs)))

\* The list as it was collected.
Unsorted(ts, refs) == refs

\* Line 462: list.sort(key=priority, reverse=True), a stable sort.
SortByPriority(ts, refs) == SortFrom(ts, refs, <<>>)

\* Lines 521-526: the task is in progress and the cache is read.
StartSingleTask(t, cache) ==
  [t EXCEPT !.status = "in_progress", !.at_dispatch = cache[t.task_id]]

\* Line 526, dict.get: the stored response, None when there is none. The key
\* is the task_id; line 528 reads a stored None like a missing entry.
CacheGet(cache, id) == IF cache[id] = Absent THEN None ELSE cache[id]

\* Lines 528-533: the cached response completes the task.
ServeFromCache(t, resp) ==
  [t EXCEPT !.response = resp, !.status = "completed", !.cached = TRUE]

LoopConditionInclusive(t) == t.retry_count <= t.max_retries

\* Line 536: the loop condition.
LoopCondition(t) == t.retry_count < t.max_retries

\* Lines 537-546: the body of the try. Printing the request keys raises for a
\* request that is no mapping, before the tool is called; otherwise the result
\* is what the callable returns or raises. called: the callable was invoked;
\* tool_raised: the tool function raised in that call.
TryBody(t, mode, o) ==
  IF t.request # "mapping"
  THEN [kind |-> "raise", val |-> "x_keys", called |-> 0, tool_raised |-> 0]
  ELSE [kind |-> execute_func(mode, o).kind, val |-> execute_func(mode, o).val,
        called |-> 1, tool_raised |-> IF o.kind = "raise" THEN 1 ELSE 0]

\* The history fields after a pass with result r.
Recorded(t, r) ==
  [t EXCEPT !.attempts = @ + 1, !.calls = @ + r.called,
            !.tool_raised = @ + r.tool_raised,
            !.last = IF r.called = 1 THEN [kind |-> r.kind, val |-> r.val] ELSE @]

AfterAttemptRetryError(t, r) ==
  IF r.kind = "ok"
  THEN [Recorded(t, r) EXCEPT !.response = r.val, !.status = "completed"]
  ELSE [Recorded(t, r) EXCEPT !.retry_count = @ + 1, !.raised = @ + 1,
                              !.error = r.val,
                              !.status = IF t.retry_count + 1 >= t.max_retries
                                         THEN "failed" ELSE @]

AfterAttemptCountAll(t, r) ==
  CASE r.kind = "error" ->
         [Recorded(t, r) EXCEPT !.error = r.val, !.status = "failed"]
    [] r.kind = "ok" ->
         [Recorded(t, r) EXCEPT !.retry_count = @ + 1, !.response = r.val,
                                !.status = "completed"]
    [] OTHER ->
         [Recorded(t, r) EXCEPT !.retry_count = @ + 1, !.raised = @ + 1,
                                !.error = r.val,
                                !.status = IF t.retry_count + 1 >= t.max_retries
                                           THEN "failed" ELSE @]

\* Lines 549-570: what one pass of the retry loop does to the task.
AfterAttempt(t, r) ==
  LET u == Recorded(t, r) IN
  CASE r.kind = "error" ->
         [u EXCEPT !.error = r.val, !.status = "failed"]
    [] r.kind = "ok" ->
         [u EXCEPT !.response = r.val, !.status = "completed"]
    [] OTHER ->
         [u EXCEPT !.retry_count = @ + 1, !.raised = @ + 1, !.error = r.val,
                   !.status = IF t.retry_count + 1 >= t.max_retries
                              THEN "failed" ELSE @]

\* Every result of the callable is stored, an error payload too.
CacheAfterAnyResult(cache, t, r) ==
  IF r.called = 1 THEN [cache EXCEPT ![t.task_id] = r.val] ELSE cache

\* Line 557: only a successful response is stored.
CacheAfter(cache, t, r) ==
  IF r.kind = "ok" THEN [cache EXCEPT ![t.task_id] = r.val] ELSE cache

\* Lines 559 and 536: break after a result, else test the loop condition.
LoopContinues(t2, r) == r.kind = "raise" /\ LoopCondition(t2)

\* Lines 481-488: the counters after the future of task t is collected.
CountCompleted(n, t) == IF t.status = "completed" THEN n + 1 ELSE n

CountFailedAll(n, t) == n + 1

CountFailed(n, t) ==
  IF t.status = "completed" THEN n
  ELSE IF t.status = "failed" THEN n + 1 ELSE n

\* ------------------------------------------------------------ the merger
\* str.split('_')[0]: the characters before the first separator.
RECURSIVE FirstToken(_)
FirstToken(f) ==
  IF f = <<>> \/ Head(f) = "_" THEN <<>>
  ELSE <<Head(f)>> \o FirstToken(Tail(f))

\* str.startswith
StartsWith(f, p) == Len(p) <= Len(f) /\ SubSeq(f, 1, Len(p)) = p

\* Lines 722-724: the parent condition.
IsParentOf(existing_task, new_task) ==
  /\ existing_task.agent_call_required
  /\ existing_task.status = "completed"
  /\ StartsWith(new_task.function, FirstToken(existing_task.function))

\* Lines 721-729: index of the first parent candidate in the list, 0 if none.
RECURSIVE FindParent(_, _, _)
FindParent(list, new_task, i) ==
  IF i > Len(list) THEN 0
  ELSE IF IsParentOf(list[i], new_task) THEN i
       ELSE FindParent(list, new_task, i + 1)

\* The search for a parent without its break: the new task goes under every
\* candidate.
MergeOneNoBreak(list, new_task) ==
  IF FindParent(list, new_task, 1) # 0
  THEN [i \in 1..Len(list) |->
          IF IsParentOf(list[i], new_task)
          THEN [list[i] EXCEPT !.subtasks =
                  Append(@, [new_task EXCEPT !.parent_task_id = list[i].task_id])]
          ELSE list[i]]
  ELSE Append(list, new_task)

\* Lines 717-733: one new task is attached to its parent or appended.
MergeOne(list, new_task) ==
  LET p == FindParent(list, new_task, 1) IN
  IF p # 0
  THEN [list EXCEPT ![p].subtasks =
          Append(@, [new_task EXCEPT !.parent_task_id = list[p].task_id])]
  ELSE Append(list, new_task)

RECURSIVE MergeList(_, _)
MergeList(list, news) ==
  IF news = <<>> THEN list
  ELSE MergeList(MergeOne(list, Head(news)), Tail(news))

\* _merge_tasks: on a deep copy of the existing plan, category by category.
merge_tasks(existing, new) ==
  [c \in CategorySet |-> MergeList(existing[c], new[c])]

\* Lines 224-227: pending tasks among the top-level entries.
NewPending(ts) == Len(CollectPending(ts))

\* Lines 582-589: some top-level task is completed and requires a callback.
CallbackRequired(ts) ==
  \E c \in CategorySet : \E i \in 1..Len(ts[c]) :
    ts[c][i].agent_call_required /\ ts[c][i].status = "completed"

RECURSIVE SumLen(_, _)
SumLen(list, i) ==
  IF i > Len(list) THEN 0 ELSE 1 + Len(list[i].subtasks) + SumLen(list, i + 1)

\* Number of tasks of a plan, subtasks included.
RECURSIVE TaskCountFrom(_, _)
TaskCountFrom(ts, k) ==
  IF k > Len(Categories) THEN 0
  ELSE SumLen(ts[Categories[k]], 1) + TaskCountFrom(ts, k + 1)

TaskCount(ts) == TaskCountFrom(ts, 1)

AllTasks(ts) ==
  UNION { {ts[c][i] : i \in 1..Len(ts[c])}
            \cup UNION { {ts[c][i].subtasks[j] : j \in 1..Len(ts[c][i].subtasks)} :
                         i \in 1..Len(ts[c]) } :
          c \in CategorySet }

\* Largest task_id of a plan, 0 for the empty plan.
MaxIdOf(ts) ==
  LET ids == {t.task_id : t \in AllTasks(ts)} IN
  IF ids = {} THEN 0 ELSE CHOOSE i \in ids : \A j \in ids : j <= i

\* Line 173: the test of the while loop.
LoopTestNoCap(n) == TRUE

LoopTest(n) == n < max_iterations

\* ------------------------------------------------- the session state store
\* The state is a tree of Python dicts and lists. Objects live in a heap (a
\* sequence, allocation appends) and are held by reference, so that two names
\* for one object can be told from two equal objects.
Keys == {"user_profile", "tasks", "travel_info", "seat_preference",
         "destination", "poi", "task_id", "status"}

\* The order in which the entries of a dict are visited.
KeyOrder == <<"user_profile", "tasks", "travel_info", "seat_preference",
              "destination", "poi", "task_id", "status">>

\* Values: a string, a reference to an object, or no entry for the key.
Scalar(x) == [t |-> "s", s |-> x, r |-> 0]

Ref(a) == [t |-> "r", s |-> "", r |-> a]

Missing == [t |-> "m", s |-> "", r |-> 0]

NoFields == [k \in Keys |-> Missing]

Dict(f) == [kind |-> "dict", fields |-> f, items |-> <<>>]

List(items) == [kind |-> "list", fields |-> NoFields, items |-> items]

Field1(k, v) == [NoFields EXCEPT ![k] = v]

Field2(k1, v1, k2, v2) == [NoFields EXCEPT ![k1] = v1, ![k2] = v2]

IsDict(h, v) == v.t = "r" /\ h[v.r].kind = "dict"

IsList(h, v) == v.t = "r" /\ h[v.r].kind = "list"

\* _get_default_state: the state of a new session (one scalar and one list
\* stand for the fields of user_profile and of travel_info).
DefaultHeap ==
  << Dict([NoFields EXCEPT !["user_profile"] = Ref(2), !["tasks"] = Ref(3),
                           !["travel_info"] = Ref(4)]),
     Dict(Field1("seat_preference", Scalar(""))),
     List(<<>>),
     Dict(Field2("destination", Scalar(""), "poi", Ref(5))),
     List(<<>>) >>

\* _make_json_serializable: the JSON text of a value, as a token sequence.
RECURSIVE make_json_serializable(_, _)
RECURSIVE SerFields(_, _, _)
RECURSIVE SerItems(_, _, _)
make_json_serializable(h, v) ==
  CASE v.t = "s" -> <<"str", v.s>>
    [] v.t = "m" -> <<>>
    [] OTHER ->
         IF h[v.r].kind = "dict"
         THEN <<"{">> \o SerFields(h, h[v.r].fields, 1) \o <<"}">>
         ELSE <<"[">> \o SerItems(h, h[v.r].items, 1) \o <<"]">>

SerFields(h, f, i) ==
  IF i > Len(KeyOrder) THEN <<>>
  ELSE (IF f[KeyOrder[i]] = Missing THEN <<>>
        ELSE <<KeyOrder[i]>> \o make_json_serializable(h, f[KeyOrder[i]]))
         \o SerFields(h, f, i + 1)

SerItems(h, items, i) ==
  IF i > Len(items) THEN <<>>
  ELSE make_json_serializable(h, items[i]) \o SerItems(h, items, i + 1)

\* copy.deepcopy of the object at address a: every object reachable from it
\* is allocated anew. The result is the new heap and the reference to the copy.
RECURSIVE deepcopy(_, _)
RECURSIVE CopyFields(_, _, _, _)
RECURSIVE CopyItems(_, _, _, _)
deepcopy(h, a) ==
  IF h[a].kind = "dict"
  THEN LET c == CopyFields(h, h[a].fields, 1, NoFields)
       IN [heap |-> Append(c.heap, Dict(c.fields)), val |-> Ref(Len(c.heap) + 1)]
  ELSE LET c == CopyItems(h, h[a].items, 1, <<>>)
       IN [heap |-> Append(c.heap, List(c.items)), val |-> Ref(Len(c.heap) + 1)]

CopyFields(h, f, i, acc) ==
  IF i > Len(KeyOrder) THEN [heap |-> h, fields |-> acc]
  ELSE LET k == KeyOrder[i] IN
       IF f[k].t = "r"
       THEN LET c == deepcopy(h, f[k].r)
            IN CopyFields(c.heap, f, i + 1, [acc EXCEPT ![k] = c.val])
       ELSE CopyFields(h, f, i + 1, [acc EXCEPT ![k] = f[k]])

CopyItems(h, items, i, acc) ==
  IF i > Len(items) THEN [heap |-> h, items |-> acc]
  ELSE IF items[i].t = "r"
       THEN LET c == deepcopy(h, items[i].r)
            IN CopyItems(c.heap, items, i + 1, Append(acc, c.val))
       ELSE CopyItems(h, items, i + 1, Append(acc, items[i]))

get_state_alias(h, root) == [heap |-> h, val |-> Ref(root)]

\* get_state: a deep copy of self.state.
get_state(h, root) == deepcopy(h, root)

SetField(h, a, k, v) == [h EXCEPT ![a].fields[k] = v]

AppendItem(h, a, v) == [h EXCEPT ![a].items = Append(@, v)]

\* task.get("task_id"), "" when the record has none.
TaskIdOf(h, v) ==
  IF h[v.r].fields["task_id"].t = "s" /\ h[v.r].fields["task_id"].s # None
  THEN h[v.r].fields["task_id"].s ELSE ""

\* Line 193: the task ids of the list before the update is applied.
ExistingIds(h, l) ==
  {TaskIdOf(h, h[l].items[j]) : j \in 1..Len(h[l].items)} \ {""}

\* Line 198: the first record of the list with the given id.
FirstWithId(h, l, id) ==
  h[l].items[CHOOSE j \in 1..Len(h[l].items) :
               /\ TaskIdOf(h, h[l].items[j]) = id
               /\ \A i \in 1..(j - 1) : TaskIdOf(h, h[l].items[i]) # id]

\* dict.update: the entries of b overwrite those of a, one level deep.
DictUpdate(h, a, b) ==
  [h EXCEPT ![a].fields =
     [k \in Keys |-> IF h[b].fields[k] # Missing THEN h[b].fields[k] ELSE @[k]]]

\* The tasks list handled as any other list: the incoming list takes the
\* place of the items.
UpsertFromWholesale(h, l, incoming, ids, j) ==
  [h EXCEPT ![l].items = h[incoming].items]

\* Lines 194-205: the records of the incoming list, from position j on, update
\* the record with their id or are appended (the record object itself).
RECURSIVE UpsertFrom(_, _, _, _, _)
UpsertFrom(h, l, incoming, ids, j) ==
  IF j > Len(h[incoming].items) THEN h
  ELSE LET task == h[incoming].items[j]
           id == TaskIdOf(h, task)
       IN UpsertFrom(IF id # "" /\ id \in ids
                     THEN DictUpdate(h, FirstWithId(h, l, id).r, task.r)
                     ELSE AppendItem(h, l, task),
                     l, incoming, ids, j + 1)

\* _deep_merge(base, updates) on the dicts at these addresses: dicts are
\* merged key by key, the tasks list is updated record by record, any other
\* value replaces the entry (the incoming object itself is stored).
RECURSIVE deep_merge(_, _, _)
RECURSIVE MergeFrom(_, _, _, _)
deep_merge(h, base, updates) == MergeFrom(h, base, updates, 1)

MergeFrom(h, base, updates, i) ==
  IF i > Len(KeyOrder) THEN h
  ELSE LET key == KeyOrder[i]
           value == h[updates].fields[key]
           cur == h[base].fields[key]
       IN MergeFrom(
            IF value = Missing THEN h
            ELSE IF IsDict(h, cur) /\ IsDict(h, value)
                 THEN deep_merge(h, cur.r, value.r)
            ELSE IF key = "tasks" /\ IsList(h, cur) /\ IsList(h, value)
                 THEN UpsertFrom(h, cur.r, value.r, ExistingIds(h, cur.r), 1)
            ELSE SetField(h, base, key, value),
            base, updates, i + 1)

\* The updates the oracles propose and the root agent builds, each parsed or
\* built into fresh objects: the result is the new heap and the address of
\* the updates dict.
UpdateNames == {"set_destination", "set_poi", "put_task", "done_task",
                "dup_task", "note"}

AllocUpdate(h, name) ==
  LET n == Len(h) IN
  CASE name = "set_destination" ->
         [heap |-> h \o << Dict(Field1("destination", Scalar("d1"))),
                           Dict(Field1("travel_info", Ref(n + 1))) >>,
          addr |-> n + 2]
    [] name = "set_poi" ->
         [heap |-> h \o << List(<<Scalar("p1")>>),
                           Dict(Field1("poi", Ref(n + 1))),
                           Dict(Field1("travel_info", Ref(n + 2))) >>,
          addr |-> n + 3]
    [] name = "put_task" ->
         [heap |-> h \o << Dict(Field2("task_id", Scalar("t1"), "status", Scalar("pending"))),
                           List(<<Ref(n + 1)>>),
                           Dict(Field1("tasks", Ref(n + 2))) >>,
          addr |-> n + 3]
    [] name = "done_task" ->
         [heap |-> h \o << Dict(Field2("task_id", Scalar("t1"), "status", Scalar("done"))),
                           List(<<Ref(n + 1)>>),
                           Dict(Field1("tasks", Ref(n + 2))) >>,
          addr |-> n + 3]
    [] name = "dup_task" ->
         [heap |-> h \o << Dict(Field2("task_id", Scalar("t2"), "status", Scalar("pending"))),
                           Dict(Field2("task_id", Scalar("t2"), "status", Scalar("done"))),
                           List(<<Ref(n + 1), Ref(n + 2)>>),
                           Dict(Field1("tasks", Ref(n + 3))) >>,
          addr |-> n + 4]
    [] OTHER ->
         [heap |-> h \o << Dict(Field1("status", Scalar("note"))),
                           List(<<Ref(n + 1)>>),
                           Dict(Field1("tasks", Ref(n + 2))) >>,
          addr |-> n + 3]

\* The objects reachable from address a.
RECURSIVE Reachable(_, _)
Reachable(h, a) ==
  {a} \cup
    UNION { Reachable(h, h[a].fields[k].r) : k \in {x \in Keys : h[a].fields[x].t = "r"} }
    \cup
    UNION { Reachable(h, h[a].items[j].r) :
              j \in {x \in 1..Len(h[a].items) : h[a].items[x].t = "r"} }

\* No diff has been returned yet.
NoDiff == [name |-> "", proposed_updates |-> 0, current_state |-> 0, proposed_state |-> 0]

\* get_proposed_state_diff with the copies left out: the updates are merged
\* into self.state itself.
get_proposed_state_diff_inplace(h, root, updates) ==
  [heap |-> deep_merge(h, root, updates),
   proposed_updates |-> updates, current_state |-> root, proposed_state |-> root]

\* get_proposed_state_diff with a one-level dict.update in place of the merge.
get_proposed_state_diff_shallow(h, root, updates) ==
  LET cur == get_state(h, root)
      prop == deepcopy(cur.heap, cur.val.r)
  IN [heap |-> DictUpdate(prop.heap, prop.val.r, updates),
      proposed_updates |-> updates, current_state |-> cur.val.r,
      proposed_state |-> prop.val.r]

\* get_proposed_state_diff(proposed_updates): a copy of the state, a copy of
\* that copy with the updates merged in, and the updates themselves.
get_proposed_state_diff(h, root, updates) ==
  LET cur == get_state(h, root)
      prop == deepcopy(cur.heap, cur.val.r)
  IN [heap |-> deep_merge(prop.heap, prop.val.r, updates),
      proposed_updates |-> updates, current_state |-> cur.val.r,
      proposed_state |-> prop.val.r]

\* __init__ / _load_state of a new session: the default state.
StoreInit ==
  /\ heap = DefaultHeap
  /\ state = 1
  /\ saved = make_json_serializable(DefaultHeap, Ref(1))
  /\ held = <<>>
  /\ ops = 0
  /\ last_op = "init"
  /\ last_update = ""
  /\ diff = NoDiff

\* ------------------------------------------------- the oracle's payload
\* main_agent.py, _call_llm (737-756) and _parse_json_response (794-810). A
\* text is a sequence of lexical tokens: a code fence, the word json, white
\* space, the two braces, a member ("k": 1), a digit, and any other text.

Tokens == {"fence", "json", " ", "{", "}", "k", "1", "x"}

MaxText == 3

Texts == UNION {[1..n -> Tokens] : n \in 0..MaxText}

\* A response without a text part: response.text is None (line 752).
NoText == <<None>>

\* What _call_llm returns when the client raises (line 756).
EmptyJsonText == <<"{", "}">>

\* Line 797, re.sub of a fence with an optional json by nothing: every fence goes, with
\* the word json when it follows the fence at once.
RECURSIVE RemoveFences(_)
RemoveFences(t) ==
  IF t = <<>> THEN <<>>
  ELSE IF Head(t) = "fence"
       THEN IF Len(t) > 1 /\ t[2] = "json"
            THEN RemoveFences(SubSeq(t, 3, Len(t)))
            ELSE RemoveFences(Tail(t))
       ELSE <<Head(t)>> \o RemoveFences(Tail(t))

\* str.strip(): white space at both ends goes.
RECURSIVE Strip(_)
Strip(t) ==
  IF t = <<>> THEN <<>>
  ELSE IF Head(t) = " " THEN Strip(Tail(t))
  ELSE IF t[Len(t)] = " " THEN Strip(SubSeq(t, 1, Len(t) - 1))
  ELSE t

\* Line 798, cleaned.replace("fence", ""): fences that are left go.
ReplaceFences(t) == SelectSeq(t, LAMBDA c : c # "fence")

\* Lines 801-803, re.search for a brace pair with anything between: the
\* greedy match runs from the first opening brace to the last closing brace after
\* it; without a match the text stays as it is.
SearchObject(t) ==
  LET opens == {i \in 1..Len(t) : t[i] = "{"}
      first == CHOOSE i \in opens : \A j \in opens : i <= j
      closes == {i \in 1..Len(t) : t[i] = "}" /\ i > first}
      last == CHOOSE i \in closes : \A j \in closes : j <= i
  IN IF opens = {} THEN t
     ELSE IF closes = {} THEN t
     ELSE SubSeq(t, first, last)

JsonObject(keys) == [kind |-> "dict", keys |-> keys]
JsonNumber == [kind |-> "int", keys |-> {}]
JSONDecodeError == [kind |-> "JSONDecodeError", keys |-> {}]
TypeError == [kind |-> "TypeError", keys |-> {}]

\* Line 805, json.loads: a document is one value between optional white
\* space: an object with no member or with the member k, or a number; every
\* other text is a JSONDecodeError.
json_loads(t) ==
  LET u == Strip(t)
      inner == Strip(SubSeq(u, 2, Len(u) - 1))
  IN IF u = <<>> THEN JSONDecodeError
     ELSE IF \A i \in 1..Len(u) : u[i] = "1" THEN JsonNumber
     ELSE IF Len(u) >= 2 /\ u[1] = "{" /\ u[Len(u)] = "}"
          THEN IF inner = <<>> THEN JsonObject({})
               ELSE IF inner = <<"k">> THEN JsonObject({"k"})
               ELSE JSONDecodeError
          ELSE JSONDecodeError

\* Lines 794-810: the handler catches json.JSONDecodeError alone; re.sub
\* raises TypeError on a response that is None, and json.loads returns
\* whatever value the document holds.
parse_json_response(response) ==
  IF response = NoText THEN TypeError
  ELSE LET r == json_loads(SearchObject(Strip(ReplaceFences(Strip(RemoveFences(response))))))
       IN IF r = JSONDecodeError THEN JsonObject({}) ELSE r

\* Lines 746-756: the text of the client's response (None when the response
\* holds no text part), or "{}" when the client raises.
call_llm(client, text) == IF client = "raises" THEN EmptyJsonText ELSE text

\* No oracle call is under way.
NoParseCall ==
  [phase |-> "none", client |-> "answers", text |-> <<>>, response |-> <<>>,
   result |-> JsonObject({})]

\* ------------------------------------------------ sessions in the cache
\* chat_history.py, SQLCache and SessionMessages; state_manager.py,
\* _load_state and _save_state; app.py, the chat and clearSession requests.
\* A session's state is taken by its task ids and its destination.

SessionIds == {"A", "B"}

MaxSessionOps == 6

SessionState(tasks, destination) == [tasks |-> tasks, destination |-> destination]

\* state_manager.py 47-90 and 118-159.
DefaultState == SessionState(<<>>, "")

\* What a row of the cache table holds: a state or a list of messages.
StateValue(st) == [kind |-> "state", state |-> st, messages |-> <<>>]
MessagesValue(ms) == [kind |-> "messages", state |-> DefaultState, messages |-> ms]
NoValue == [kind |-> "None", state |-> DefaultState, messages |-> <<>>]

\* chat_history.py 101-106: the database file of a cache object.
get_database_path(ssid) == <<ssid, "_cache.db">>

\* chat_history.py 97: str(session_id + context), context "travel_agent".
cache_key(session_id) == <<session_id, "travel_agent">>

\* state_manager.py 102 and 289: f"state_{self.session_id}".
state_key(session_id) == <<"state_", session_id>>

Row(path, key, session_id, value) ==
  [path |-> path, key |-> key, session_id |-> session_id, value |-> value]

\* chat_history.py 138-156: INSERT OR REPLACE under (key, session_id).
cache_set(rows, path, key, value, session_id) ==
  {r \in rows : ~(r.path = path /\ r.key = key /\ r.session_id = session_id)}
    \cup {Row(path, key, session_id, value)}

\* chat_history.py 158-184: the row's value, or the default None.
cache_get(rows, path, key, session_id) ==
  LET found == {r \in rows : r.path = path /\ r.key = key /\ r.session_id = session_id}
  IN IF found = {} THEN NoValue ELSE (CHOOSE r \in found : TRUE).value

\* SessionMessages.clear, chat_history.py 88-90: the history alone is set
\* to the empty list.
clear_history_only(rows, path, session_id) ==
  cache_set(rows, path, cache_key(session_id), MessagesValue(<<>>), session_id)

\* chat_history.py 246-257: DELETE FROM cache WHERE session_id = ?.
clear_session(rows, path, session_id) ==
  {r \in rows : ~(r.path = path /\ r.session_id = session_id)}

NoAgent == [live |-> FALSE, state |-> DefaultState]

\* The files and the objects: the template file default.json, the rows of
\* the cache tables, and for each session the agent of its request.
NoWorld ==
  [template |-> NoValue, rows |-> {}, agent |-> [s \in SessionIds |-> NoAgent]]

\* state_manager.py 42-95: the template is written when it does not exist.
ensure_state_file_exists(w) ==
  IF w.template = NoValue THEN [w EXCEPT !.template = StateValue(DefaultState)] ELSE w

\* state_manager.py 97-116: the cached state when there is one, else the
\* state of the template file.
load_state(w, s) ==
  LET cached_state == cache_get(w.rows, get_database_path(s), state_key(s), s)
  IN IF cached_state # NoValue THEN cached_state.state
     ELSE IF w.template # NoValue THEN w.template.state
     ELSE DefaultState

\* chat_history.py 29-42: the messages property reads the cache.
messages(w, s) == cache_get(w.rows, get_database_path(s), cache_key(s), s).messages

\* A version of _save_state that writes the session's state to the template
\* file as well.
save_session_state_to_template(w, s) ==
  [w EXCEPT !.rows = cache_set(@, get_database_path(s), state_key(s),
                               StateValue(w.agent[s].state), s),
            !.template = StateValue(w.agent[s].state)]

\* state_manager.py 276-299: the state goes to the cache, under the
\* session's key, and nowhere else.
save_session_state(w, s) ==
  [w EXCEPT !.rows = cache_set(@, get_database_path(s), state_key(s),
                               StateValue(w.agent[s].state), s)]

\* app.py 292, main_agent.py 34-69: a chat request builds the agent, whose
\* state manager loads the session's state.
open_agent(w, s) ==
  LET e == ensure_state_file_exists(w)
  IN [e EXCEPT !.agent[s] = [live |-> TRUE, state |-> load_state(e, s)]]

SessionUpdates == {"set_destination", "put_task"}

\* state_manager.py 165-183: a commit merges into the agent's state and
\* saves it.
commit(w, s, u) ==
  LET st == w.agent[s].state
      merged == IF u = "set_destination" THEN [st EXCEPT !.destination = "d2"]
                ELSE IF \E i \in 1..Len(st.tasks) : st.tasks[i] = "t1" THEN st
                ELSE [st EXCEPT !.tasks = Append(@, "t1")]
  IN save_session_state([w EXCEPT !.agent[s].state = merged], s)

\* chat_history.py 44-56: add_message reads the list, appends and writes.
add_message(w, s, m) ==
  [w EXCEPT !.rows = cache_set(@, get_database_path(s), cache_key(s),
                               MessagesValue(Append(messages(w, s), m)), s)]

\* app.py 357-364: the clearSession request.
clear_session_request(w, s) ==
  [w EXCEPT !.rows = clear_session(@, get_database_path(s), s)]

\* The request has answered; its agent is gone.
close_agent(w, s) == [w EXCEPT !.agent[s] = NoAgent]

\* What an access to a session reads.
View(w, s) == [state |-> load_state(ensure_state_file_exists(w), s),
               messages |-> messages(w, s),
               agent |-> w.agent[s]]

\* No session has been used. solo[s] is the world in which the operations
\* of session s alone have happened; last[s] is the last operation that wrote
\* to session s, and wrote[s] the operations that have written to it.
NoSessions ==
  [world |-> NoWorld, solo |-> [s \in SessionIds |-> NoWorld],
   last |-> [s \in SessionIds |-> "none"], wrote |-> [s \in SessionIds |-> {}],
   ops |-> 0, op |-> "none", on |-> "A"]

\* ------------------------------------------- routing in the tool registry
\* tools_resgistry.py. A function name is its stem, followed or not by the
\* suffix _tool; parameters are taken by their names.

Suffixed(stem) == <<stem, "_tool">>

\* Lines 25-57, the flight, hotel and map entries of the table.
FlightEntries ==
  {Suffixed("search_flights"), Suffixed("get_flight_offers"),
   Suffixed("check_flight_availability"), Suffixed("confirm_flight_pricing")}

HotelEntries == {Suffixed("search_hotels"), Suffixed("get_hotel_details")}

TOOL_REGISTRY == FlightEntries \cup HotelEntries \cup {Suffixed("get_route")}

\* Line 78: TOOL_REGISTRY.get(function_name) or
\* TOOL_REGISTRY.get(f"{function_name}_tool").
Lookup(function_name) ==
  IF function_name \in TOOL_REGISTRY THEN function_name
  ELSE IF function_name \o <<"_tool">> \in TOOL_REGISTRY
       THEN function_name \o <<"_tool">>
       ELSE <<>>

\* Lines 122-127.
flight_tools ==
  {Suffixed("confirm_flight_pricing"), Suffixed("search_flights"),
   Suffixed("get_flight_offers")}
hotel_params == {"hotel_id", "check_in_date", "check_out_date", "city"}
hotel_tools == {Suffixed("get_hotel_details"), Suffixed("search_hotels")}
flight_params == {"flight_offer", "flight_offer_id", "origin", "destination",
                  "departure_date"}

RoutingError == [kind |-> "error", val |-> "e_routing"]
NotFound == [kind |-> "error", val |-> "e_not_found"]

\* Lines 116-159: the name the caller gave is looked for in the two lists.
validate_task_routing(function_name, parameters) ==
  IF function_name \in flight_tools /\ parameters \cap hotel_params # {}
  THEN RoutingError
  ELSE IF /\ function_name \in hotel_tools
          /\ parameters \cap flight_params # {}
          /\ "hotel_id" \notin parameters
          /\ "city" \notin parameters
       THEN RoutingError
       ELSE [kind |-> "ok", val |-> None]

\* Lines 77-98: look the tool up, validate the routing, call the tool. o is
\* what the tool does when it is invoked.
execute_tool_call(function_name, parameters, o) ==
  IF Lookup(function_name) = <<>>
  THEN [result |-> NotFound, invoked |-> FALSE]
  ELSE IF validate_task_routing(function_name, parameters) = RoutingError
       THEN [result |-> RoutingError, invoked |-> FALSE]
       ELSE [result |-> execute_tool_by_name(o), invoked |-> TRUE]

FunctionNames ==
  TOOL_REGISTRY \cup {<<n[1]>> : n \in TOOL_REGISTRY} \cup {<<"search_cars">>}

ParameterNames == {"hotel_id", "city", "origin", "flight_offer", "location"}

NoRouteCall ==
  [phase |-> "none", function_name |-> <<>>, parameters |-> {},
   tool |-> [kind |-> "ok", val |-> None], result |-> [kind |-> "ok", val |-> None],
   invoked |-> FALSE]

\* ------------------------------------------------ the merge parent rule
\* _merge_tasks on one category, with function names of which one first
\* token is the beginning of another.

fn_gets_offers == <<"g", "e", "t", "s", "_", "o">>

RuleFunctions == {fn_get_offers, fn_gets_offers, fn_find_places}

MaxExisting == 2

\* A task of the category as earlier passes can have left it.
RuleTask(f, flagged, status, id) ==
  [NewTask([category |-> "maps", function |-> f, agent_call_required |-> flagged,
            priority |-> 0, request |-> "mapping"], id)
     EXCEPT !.status = status]

RuleLists ==
  UNION {[1..n -> RuleFunctions \X BOOLEAN \X {"completed", "failed"}] :
         n \in 0..MaxExisting}

ExistingList(l) == [i \in 1..Len(l) |-> RuleTask(l[i][1], l[i][2], l[i][3], i)]

NoRuleCall == [phase |-> "none", existing |-> <<>>, new |-> <<>>, merged |-> <<>>]

\* ------------------------------------------------------- the worker pool
\* Largest plan whose tasks differ in category and priority.
MaxSorted == 3

\* Plans of pending tasks handed to one executor call: the short plans of
\* every mix of categories and priorities, and the crowded plan, which holds
\* one task more than the pool has workers, all of one kind. The pool does
\* not read task ids.
ShortLists == UNION {[1..n -> TaskSpecs] : n \in 0..MaxSorted}

CrowdLists ==
  {[i \in 1..(max_workers + 1) |-> CHOOSE s \in TaskSpecs : s.priority = 0]}

PoolPlan(l) == ByCategory([i \in 1..Len(l) |-> [spec |-> l[i], id |-> 1]])

NoPoolCall ==
  [phase |-> "none", plan |-> EmptyPlan, refs |-> <<>>, submitted |-> 0, taken |-> 0]

\* The work items a worker has taken from the queue and not finished: the
\* queue is first in, first out, so the items taken are the first ones.
Busy(p) == {k \in 1..p.taken : TaskAt(p.plan, p.refs[k]).status # "completed"}

\* A pool that grows with the work.
WorkerAlwaysFree(p) == TRUE

\* max_workers = 10: a worker takes the next item when it holds none, and
\* there are at most max_workers workers.
WorkerFree(p) == Cardinality(Busy(p)) < max_workers

\* The requests of one session that are served at the same time, each by a
\* thread of its own with an agent and a cache object of its own.
Runs == {1, 2}

\* The text of the user's message and of the assistant's message of a run.
QueryOf(r) == IF r = 1 THEN "q1" ELSE "q2"
ReplyOf(r) == IF r = 1 THEN "a1" ELSE "a2"

\* The conversation a session can hold when the requests arrive: none, or
\* the exchange of an earlier request.
EarlierHistories ==
  {<<>>, <<[type |-> "human", content |-> "q0"], [type |-> "ai", content |-> "a0"]>>}

\* No request is being served. step counts the reads and writes a run has
\* made: two for add_user_message, two for add_ai_message.
NoHistoryCall ==
  [phase |-> "none", session |-> "A", rows |-> {},
   run |-> [r \in Runs |-> [step |-> 0, current_messages |-> <<>>]]]

\* The variables beside the run, the store, the session and the merge stay
\* at rest.
AuxIdle ==
  /\ parse_call = NoParseCall
  /\ sessions = NoSessions
  /\ route_call = NoRouteCall
  /\ rule_call = NoRuleCall
  /\ pool_call = NoPoolCall
  /\ history_call = NoHistoryCall

\* ------------------------------------------------ generate(): the actions
\* No call of _merge_tasks is under way.
NoMergeCall ==
  [objs |-> <<>>, plan |-> EmptyPlan, existing |-> EmptyPlan, before |-> EmptyPlan,
   count |-> 0, phase |-> "none", iterations |-> <<>>]

\* Nothing has been returned.
NoReturn == [kind |-> "", text |-> ""]

\* A session before its first call of generate(), in working surroundings.
SessionFresh ==
  /\ history = <<>>
  /\ returned = NoReturn
  /\ actor = ""
  /\ env = [client |-> TRUE, db |-> TRUE]
  /\ sufficient = "unknown"
  /\ start = [json |-> <<>>, history |-> <<>>]

InitWith(mode) ==
  /\ pc = "planning"
  /\ exec_mode = mode
  /\ task_structure = EmptyPlan
  /\ iteration_count = 0
  /\ iterations = <<>>
  /\ task_cache = [id \in TaskIds |-> Absent]
  /\ pending_tasks = <<>>
  /\ fut = <<>>
  /\ cached_response = <<>>
  /\ completed_count = 0
  /\ failed_count = 0
  /\ next_steps = NoNextSteps
  /\ exec_calls = 0
  /\ oracle_calls = 0
  /\ StoreInit
  /\ SessionFresh

\* The program: every tool is invoked through execute_tool_by_name.
Init == InitWith("registry") /\ merge_call = NoMergeCall /\ AuxIdle

\* Lines 160-161: the planner oracle's initial plan.
Planning ==
  /\ pc = "planning"
  /\ \E l \in TaskLists(MaxPlan, 0) : task_structure' = ByCategory(l)
  /\ pc' = "loop"
  /\ UNCHANGED <<store_vars, session_vars, merge_call, aux_vars>>
  /\ UNCHANGED <<exec_mode, iteration_count, iterations, task_cache,
                 pending_tasks, fut, cached_response, completed_count,
                 failed_count, next_steps, exec_calls, oracle_calls>>

\* Lines 173, 181 and 446-474: the loop test holds and the executor is
\* called; it collects, sorts and submits the pending tasks.
ExecStart ==
  /\ pc = "loop"
  /\ LoopTest(iteration_count)
  /\ pending_tasks' = SortByPriority(task_structure, CollectPending(task_structure))
  /\ fut' = [k \in 1..Len(pending_tasks') |-> "queued"]
  /\ cached_response' = [k \in 1..Len(pending_tasks') |-> None]
  /\ completed_count' = 0
  /\ failed_count' = 0
  /\ exec_calls' = exec_calls + 1
  /\ pc' = "executing"
  /\ UNCHANGED <<store_vars, session_vars, merge_call, aux_vars>>
  /\ UNCHANGED <<exec_mode, task_structure, iteration_count, iterations,
                 task_cache, next_steps, oracle_calls>>

\* Line 173: the loop test fails.
LoopExit ==
  /\ pc = "loop"
  /\ ~LoopTest(iteration_count)
  /\ pc' = "summary"
  /\ UNCHANGED <<store_vars, session_vars, merge_call, aux_vars>>
  /\ UNCHANGED <<exec_mode, task_structure, iteration_count, iterations,
                 task_cache, pending_tasks, fut, cached_response,
                 completed_count, failed_count, next_steps, exec_calls,
                 oracle_calls>>

Running == {k \in 1..Len(fut) : fut[k] = "running"}

\* A pool worker takes the task of future k: lines 521-526. A routine that
\* misses the cache and fails the first test of the loop condition is over.
StartTask(k) ==
  /\ pc = "executing"
  /\ fut[k] = "queued"
  /\ Cardinality(Running) < max_workers
  /\ LET ref == pending_tasks[k]
         t2 == StartSingleTask(TaskAt(task_structure, ref), task_cache)
         got == CacheGet(task_cache, t2.task_id)
     IN /\ task_structure' = SetTask(task_structure, ref, t2)
        /\ cached_response' = [cached_response EXCEPT ![k] = got]
        /\ fut' = [fut EXCEPT ![k] =
                     IF got # None \/ LoopCondition(t2) THEN "running" ELSE "done"]
  /\ UNCHANGED <<store_vars, session_vars, merge_call, aux_vars>>
  /\ UNCHANGED <<pc, exec_mode, iteration_count, iterations, task_cache,
                 pending_tasks, completed_count, failed_count, next_steps,
                 exec_calls, oracle_calls>>

\* Lines 528-533: the routine of future k found a cached response.
ServeCached(k) ==
  /\ pc = "executing"
  /\ fut[k] = "running"
  /\ cached_response[k] # None
  /\ LET ref == pending_tasks[k]
     IN task_structure' =
          SetTask(task_structure, ref,
                  ServeFromCache(TaskAt(task_structure, ref), cached_response[k]))
  /\ fut' = [fut EXCEPT ![k] = "done"]
  /\ UNCHANGED <<store_vars, session_vars, merge_call, aux_vars>>
  /\ UNCHANGED <<pc, exec_mode, iteration_count, iterations, task_cache,
                 pending_tasks, cached_response, completed_count, failed_count,
                 next_steps, exec_calls, oracle_calls>>

\* One pass of the retry loop of the task of future k, lines 536-570.
Attempt(k) ==
  /\ pc = "executing"
  /\ fut[k] = "running"
  /\ cached_response[k] = None
  /\ \E o \in ToolBehaviours :
       LET ref == pending_tasks[k]
           t == TaskAt(task_structure, ref)
           r == TryBody(t, exec_mode, o)
           t2 == AfterAttempt(t, r)
       IN /\ task_structure' = SetTask(task_structure, ref, t2)
          /\ task_cache' = CacheAfter(task_cache, t, r)
          /\ fut' = [fut EXCEPT ![k] = IF LoopContinues(t2, r) THEN "running" ELSE "done"]
  /\ UNCHANGED <<store_vars, session_vars, merge_call, aux_vars>>
  /\ UNCHANGED <<pc, exec_mode, iteration_count, iterations, pending_tasks,
                 cached_response, completed_count, failed_count, next_steps,
                 exec_calls, oracle_calls>>

\* Lines 453-459 and 510-515: the summary the executor returns.
ExecutionSummary(refs, completed, failed) ==
  [total_count |-> Len(refs), completed_count |-> completed, failed_count |-> failed]

\* The orders in which as_completed can yield n futures.
Orders(n) == {p \in [1..n -> 1..n] : \A i, j \in 1..n : p[i] = p[j] => i = j}

\* Lines 476-498: the loop over the finished futures, taken in the given
\* order from position i on; the result is the pair of counters. The routine
\* catches every exception and task.error is a string or None, so the handler
\* of lines 500-504 is not entered.
RECURSIVE CollectFutures(_, _, _, _, _, _)
CollectFutures(ts, refs, order, i, completed, failed) ==
  IF i > Len(refs) THEN <<completed, failed>>
  ELSE LET t == TaskAt(ts, refs[order[i]]) IN
       CollectFutures(ts, refs, order, i + 1,
                      CountCompleted(completed, t), CountFailed(failed, t))

JoinedEarly(f) == \E k \in 1..Len(f) : f[k] = "done"

\* Lines 469-508: as_completed has yielded every future and the pool is shut
\* down, which waits for every worker.
Joined(f) == \A k \in 1..Len(f) : f[k] = "done"

\* A pass with a failed task sends generate() to its handler.
AfterPassAbortOnFailure(completed, failed) ==
  IF failed > 0 THEN "except"
  ELSE IF completed = 0 THEN "summary" ELSE "next_steps"

\* A pass without a completed task goes on to the next steps all the same.
AfterPassNoStall(completed, failed) == "next_steps"

\* Lines 198-204: where generate() goes after a pass. Without a completed
\* task the loop is left for the final summary; otherwise the next steps are
\* determined, whatever the number of failed tasks.
AfterPass(completed, failed) ==
  IF completed = 0 THEN "summary" ELSE "next_steps"

\* The fan-in and return of the executor (lines 476-515): the futures are
\* collected as they finish, which reads finished tasks only, and the pool is
\* joined. Then generate() records the iteration (lines 184-190) and tests for
\* a stall (199-201). dispatched is a history field: the tasks this call
\* submitted.
ExecReturn ==
  /\ pc = "executing"
  /\ Joined(fut)
  /\ \E order \in Orders(Len(fut)) :
       LET counts == CollectFutures(task_structure, pending_tasks, order, 1, 0, 0)
       IN /\ completed_count' = counts[1]
          /\ failed_count' = counts[2]
  /\ iterations' = Append(iterations,
       [iteration_number |-> iteration_count + 1,
        tasks |-> task_structure,
        execution_summary |->
          ExecutionSummary(pending_tasks, completed_count', failed_count'),
        agent_decisions |-> <<>>,
        dispatched |-> pending_tasks])
  /\ pc' = AfterPass(completed_count', failed_count')
  /\ pending_tasks' = <<>>
  /\ fut' = <<>>
  /\ cached_response' = <<>>
  /\ UNCHANGED <<store_vars, session_vars, merge_call, aux_vars>>
  /\ UNCHANGED <<exec_mode, task_structure, iteration_count, task_cache,
                 next_steps, exec_calls, oracle_calls>>

\* _determine_next_steps without an oracle call (lines 591-599), then the
\* break of lines 215-217.
NextStepsNoCallback ==
  /\ pc = "next_steps"
  /\ ~CallbackRequired(task_structure)
  /\ next_steps' = NoNextSteps
  /\ pc' = "summary"
  /\ UNCHANGED <<store_vars, session_vars, merge_call, aux_vars>>
  /\ UNCHANGED <<exec_mode, task_structure, iteration_count, iterations,
                 task_cache, pending_tasks, fut, cached_response,
                 completed_count, failed_count, exec_calls, oracle_calls>>

\* _determine_next_steps with the oracle call (lines 601-667): the oracle
\* answers whether more tasks are needed and names new tasks; an unparseable
\* answer is the empty mapping, which needs nothing. Then lines 215-217.
NextStepsOracle ==
  /\ pc = "next_steps"
  /\ CallbackRequired(task_structure)
  /\ \E needs \in BOOLEAN :
     \E l \in TaskLists(MaxTasks - TaskCount(task_structure), MaxIdOf(task_structure)) :
       /\ needs \/ l = <<>>
       /\ next_steps' = [needs_additional_tasks |-> needs, new_tasks |-> ByCategory(l)]
       /\ iterations' = [iterations EXCEPT ![Len(iterations)].agent_decisions =
                           Append(@, needs)]
       /\ pc' = IF needs THEN "merging" ELSE "summary"
  /\ oracle_calls' = oracle_calls + 1
  /\ UNCHANGED <<store_vars, session_vars, merge_call, aux_vars>>
  /\ UNCHANGED <<exec_mode, task_structure, iteration_count, task_cache,
                 pending_tasks, fut, cached_response, completed_count,
                 failed_count, exec_calls>>

\* Lines 220-230: merge, count the pass, stop when nothing is pending.
Merging ==
  /\ pc = "merging"
  /\ task_structure' = merge_tasks(task_structure, next_steps.new_tasks)
  /\ iteration_count' = iteration_count + 1
  /\ pc' = IF NewPending(task_structure') = 0 THEN "summary" ELSE "loop"
  /\ UNCHANGED <<store_vars, session_vars, merge_call, aux_vars>>
  /\ UNCHANGED <<exec_mode, iterations, task_cache, pending_tasks, fut,
                 cached_response, completed_count, failed_count, next_steps,
                 exec_calls, oracle_calls>>

\* Lines 232-256: final summarization; generate() returns.
FinalSummary ==
  /\ pc = "summary"
  /\ pc' = "done"
  /\ UNCHANGED <<store_vars, session_vars, merge_call, aux_vars>>
  /\ UNCHANGED <<exec_mode, task_structure, iteration_count, iterations,
                 task_cache, pending_tasks, fut, cached_response,
                 completed_count, failed_count, next_steps, exec_calls,
                 oracle_calls>>

Next ==
  \/ Planning
  \/ ExecStart
  \/ LoopExit
  \/ \E k \in 1..Len(fut) : StartTask(k)
  \/ \E k \in 1..Len(fut) : ServeCached(k)
  \/ \E k \in 1..Len(fut) : Attempt(k)
  \/ ExecReturn
  \/ NextStepsNoCallback
  \/ NextStepsOracle
  \/ Merging
  \/ FinalSummary

Spec == Init /\ [][Next]_vars

\* One executor call on its own: any plan of pending tasks, any content of the
\* cache, and either callable handed to _execute_single_task.
InitExecutor ==
  /\ pc = "loop"
  /\ exec_mode \in {"registry", "direct"}
  /\ task_structure \in {ByCategory(l) : l \in TaskLists(MaxBatch, 0)}
  /\ iteration_count = 0
  /\ iterations = <<>>
  /\ task_cache \in [TaskIds -> Results \cup {Absent}]
  /\ pending_tasks = <<>>
  /\ fut = <<>>
  /\ cached_response = <<>>
  /\ completed_count = 0
  /\ failed_count = 0
  /\ next_steps = NoNextSteps
  /\ exec_calls = 0
  /\ oracle_calls = 0
  /\ StoreInit
  /\ SessionFresh
  /\ merge_call = NoMergeCall /\ AuxIdle

NextExecutor ==
  \/ ExecStart
  \/ \E k \in 1..Len(fut) : StartTask(k)
  \/ \E k \in 1..Len(fut) : ServeCached(k)
  \/ \E k \in 1..Len(fut) : Attempt(k)
  \/ ExecReturn

SpecExecutor == InitExecutor /\ [][NextExecutor]_vars

\* The main thread and the pool workers keep running and every tool call
\* returns: a step that can be taken is taken.
SpecFair == Spec /\ WF_vars(Next)

\* ------------------------------------------- the store and its callers
\* _save_state: the serialized state goes to the session cache.
save_state(h, root) == make_json_serializable(h, Ref(root))

\* A caller reads the state.
GetStateCall ==
  /\ ops < MaxOps
  /\ LET res == get_state(heap, state)
     IN /\ heap' = res.heap
        /\ held' = Append(held, res.val.r)
  /\ ops' = ops + 1
  /\ last_op' = "get"
  /\ last_update' = ""
  /\ UNCHANGED <<state, saved, diff>>
  /\ UNCHANGED <<run_vars, session_vars, merge_call, aux_vars>>

\* A stage asks for the diff of updates it has built or parsed.
ProposeDiffCall ==
  /\ ops < MaxOps
  /\ \E name \in UpdateNames :
       LET u == AllocUpdate(heap, name)
           d == get_proposed_state_diff(u.heap, state, u.addr)
       IN /\ heap' = d.heap
          /\ diff' = [name |-> name, proposed_updates |-> d.proposed_updates,
                      current_state |-> d.current_state,
                      proposed_state |-> d.proposed_state]
          /\ last_update' = name
  /\ ops' = ops + 1
  /\ last_op' = "propose"
  /\ UNCHANGED <<state, saved, held>>
  /\ UNCHANGED <<run_vars, session_vars, merge_call, aux_vars>>

\* update_state(updates): merge, then save.
UpdateStateCall ==
  /\ ops < MaxOps
  /\ \E name \in UpdateNames :
       LET u == AllocUpdate(heap, name)
       IN /\ heap' = deep_merge(u.heap, state, u.addr)
          /\ last_update' = name
  /\ saved' = save_state(heap', state)
  /\ ops' = ops + 1
  /\ last_op' = "commit"
  /\ UNCHANGED <<state, held, diff>>
  /\ UNCHANGED <<run_vars, session_vars, merge_call, aux_vars>>

\* The destinations the root agent extracts from the user's words.
Destinations == {"d2", "d3"}

\* update_travel_info with the updates stored as the travel_info entry.
update_travel_info_replace(h, root, v) ==
  SetField(Append(h, Dict(Field1("destination", Scalar(v)))),
           root, "travel_info", Ref(Len(h) + 1))

\* update_travel_info({"destination": v}): the travel_info entry is created
\* when missing, and the updates are merged into it.
update_travel_info(h, root, v) ==
  LET n == Len(h)
      created == h[root].fields["travel_info"] = Missing
      h1 == IF created
            THEN SetField(Append(h, Dict(NoFields)), root, "travel_info", Ref(n + 1))
            ELSE h
      h2 == Append(h1, Dict(Field1("destination", Scalar(v))))
  IN deep_merge(h2, h2[root].fields["travel_info"].r, Len(h2))

\* update_travel_info(travel_info_updates), with the root agent's extracted
\* destination: the entry is merged into, and the state is saved.
UpdateTravelInfoCall ==
  /\ ops < MaxOps
  /\ \E v \in Destinations :
       /\ heap' = update_travel_info(heap, state, v)
       /\ last_update' = v
  /\ saved' = save_state(heap', state)
  /\ ops' = ops + 1
  /\ last_op' = "commit"
  /\ UNCHANGED <<state, held, diff>>
  /\ UNCHANGED <<run_vars, session_vars, merge_call, aux_vars>>

\* add_task(task), with the root agent's record of the user's intention: the
\* record is appended and saved unless a record with its id is there already.
AddTaskCall ==
  /\ ops < MaxOps
  /\ \E id \in {"t1", "t2"} :
       LET n == Len(heap)
           h1 == Append(heap,
                   Dict(Field2("task_id", Scalar(id), "status", Scalar("in_progress"))))
           l == heap[state].fields["tasks"].r
       IN IF id \in ExistingIds(heap, l)
          THEN /\ heap' = h1
               /\ UNCHANGED saved
          ELSE /\ heap' = AppendItem(h1, l, Ref(n + 1))
               /\ saved' = save_state(heap', state)
  /\ ops' = ops + 1
  /\ last_op' = "commit"
  /\ last_update' = "add_task"
  /\ UNCHANGED <<state, held, diff>>
  /\ UNCHANGED <<run_vars, session_vars, merge_call, aux_vars>>

\* A caller writes into a value it got from get_state(), at any depth: it
\* sets an entry of a dict or appends to a list.
CallerMutates ==
  /\ ops < MaxOps
  /\ \E i \in 1..Len(held) : \E a \in Reachable(heap, held[i]) :
       IF heap[a].kind = "dict"
       THEN \E k \in {x \in Keys : heap[a].fields[x] # Missing} :
              heap' = SetField(heap, a, k, Scalar("changed"))
       ELSE heap' = AppendItem(heap, a, Scalar("changed"))
  /\ ops' = ops + 1
  /\ last_op' = "mutate"
  /\ last_update' = ""
  /\ UNCHANGED <<state, saved, held, diff>>
  /\ UNCHANGED <<run_vars, session_vars, merge_call, aux_vars>>

InitStore == InitWith("registry") /\ merge_call = NoMergeCall /\ AuxIdle

NextStore ==
  \/ GetStateCall
  \/ UpdateStateCall
  \/ UpdateTravelInfoCall
  \/ AddTaskCall
  \/ CallerMutates

SpecStore == InitStore /\ [][NextStore]_vars

\* update_state(proposed_state_diff['proposed_updates']), as generate() calls
\* it: the updates are the very objects the diff was computed from.
CommitProposalCall ==
  /\ ops < MaxOps
  /\ diff # NoDiff
  /\ heap' = deep_merge(heap, state, diff.proposed_updates)
  /\ saved' = save_state(heap', state)
  /\ ops' = ops + 1
  /\ last_op' = "commit"
  /\ last_update' = diff.name
  /\ UNCHANGED <<state, held, diff>>
  /\ UNCHANGED <<run_vars, session_vars, merge_call, aux_vars>>

\* The store as the stages and generate() use it: diffs are proposed and
\* updates are committed, in any order.
NextPropose ==
  \/ ProposeDiffCall
  \/ UpdateStateCall
  \/ CommitProposalCall

SpecPropose == InitStore /\ [][NextPropose]_vars

\* ------------------------------------------------- _merge_tasks on objects
\* The plan as Python holds it: Task objects and the list objects of the
\* categories, by address. A Task's subtasks are addresses of Task objects.

TaskObject(t) == [kind |-> "task", task |-> t, items |-> <<>>]

NoTask ==
  NewTask([function |-> <<>>, request |-> "", agent_call_required |-> FALSE,
           priority |-> 0], 0)

ListObject(items) == [kind |-> "list", task |-> NoTask, items |-> items]

\* Lines 382-388, 618-624: the Task objects built from an oracle's task
\* descriptions, each appended to the list object of its category.
RECURSIVE AllocTasks(_, _, _, _)
AllocTasks(o, plan, l, i) ==
  IF i > Len(l) THEN o
  ELSE LET n == Len(o)
           o1 == Append(o, TaskObject(NewTask(l[i].spec, l[i].id)))
       IN AllocTasks([o1 EXCEPT ![plan[l[i].spec.category]].items = Append(@, n + 1)],
                     plan, l, i + 1)

\* A dict of new, empty category lists, then the tasks of l in them.
AllocPlan(o, l) ==
  LET n == Len(o)
      plan == [c \in CategorySet |->
                 n + (CHOOSE i \in 1..Len(Categories) : Categories[i] = c)]
      o1 == o \o [i \in 1..Len(Categories) |-> ListObject(<<>>)]
  IN [objs |-> AllocTasks(o1, plan, l, 1), plan |-> plan]

\* copy.deepcopy of a Task, of a list of Tasks and of the plan: every object
\* is allocated anew.
RECURSIVE CopyTask(_, _)
RECURSIVE CopyTasks(_, _, _, _)
CopyTask(o, a) ==
  LET c == CopyTasks(o, o[a].task.subtasks, 1, <<>>)
  IN [objs |-> Append(c.objs, TaskObject([o[a].task EXCEPT !.subtasks = c.addrs])),
      addr |-> Len(c.objs) + 1]

CopyTasks(o, addrs, i, acc) ==
  IF i > Len(addrs) THEN [objs |-> o, addrs |-> acc]
  ELSE LET c == CopyTask(o, addrs[i])
       IN CopyTasks(c.objs, addrs, i + 1, Append(acc, c.addr))

CopyList(o, l) ==
  LET c == CopyTasks(o, o[l].items, 1, <<>>)
  IN [objs |-> Append(c.objs, ListObject(c.addrs)), addr |-> Len(c.objs) + 1]

RECURSIVE CopyPlanFrom(_, _, _, _)
CopyPlanFrom(o, plan, i, acc) ==
  IF i > Len(Categories) THEN [objs |-> o, plan |-> acc]
  ELSE LET c == CopyList(o, plan[Categories[i]])
       IN CopyPlanFrom(c.objs, plan, i + 1, [acc EXCEPT ![Categories[i]] = c.addr])

\* A copy of the dict alone: the lists and the Tasks are those of the plan.
shallow_copy_plan(o, plan) == [objs |-> o, plan |-> plan]

\* Line 713: merged = copy.deepcopy(existing).
deepcopy_plan(o, plan) == CopyPlanFrom(o, plan, 1, plan)

\* Lines 721-729 on objects: position of the first parent candidate, 0 if none.
RECURSIVE FindParentObject(_, _, _, _)
FindParentObject(o, items, a, i) ==
  IF i > Len(items) THEN 0
  ELSE IF IsParentOf(o[items[i]].task, o[a].task) THEN i
       ELSE FindParentObject(o, items, a, i + 1)

\* Lines 717-733 on objects: the new Task object itself is given its parent's
\* id and appended to the parent's subtasks, or appended to the list.
MergeObject(o, l, a) ==
  LET p == FindParentObject(o, o[l].items, a, 1) IN
  IF p # 0
  THEN LET e == o[l].items[p]
           o1 == [o EXCEPT ![a].task.parent_task_id = o[e].task.task_id]
       IN [o1 EXCEPT ![e].task.subtasks = Append(@, a)]
  ELSE [o EXCEPT ![l].items = Append(@, a)]

RECURSIVE MergeObjects(_, _, _, _)
MergeObjects(o, l, news, i) ==
  IF i > Len(news) THEN o
  ELSE MergeObjects(MergeObject(o, l, news[i]), l, news, i + 1)

RECURSIVE MergeCategories(_, _, _, _)
MergeCategories(o, merged, new, i) ==
  IF i > Len(Categories) THEN o
  ELSE MergeCategories(
         MergeObjects(o, merged[Categories[i]], o[new[Categories[i]]].items, 1),
         merged, new, i + 1)

\* _merge_tasks(existing, new): the new objects and the merged plan.
merge_task_objects(o, existing, new) ==
  LET c == deepcopy_plan(o, existing)
  IN [objs |-> MergeCategories(c.objs, c.plan, new, 1), plan |-> c.plan]

\* The objects of a plan: its lists, its Tasks and their subtasks.
RECURSIVE TaskObjects(_, _)
TaskObjects(o, a) ==
  {a} \cup UNION { TaskObjects(o, o[a].task.subtasks[j]) :
                     j \in 1..Len(o[a].task.subtasks) }

PlanObjects(o, plan) ==
  UNION { {plan[c]} \cup UNION { TaskObjects(o, o[plan[c]].items[j]) :
                                   j \in 1..Len(o[plan[c]].items) } :
          c \in CategorySet }

\* The plan by value: category -> sequence of Task records whose subtasks
\* are records.
RECURSIVE TaskValue(_, _)
TaskValue(o, a) ==
  [o[a].task EXCEPT !.subtasks =
     [j \in 1..Len(o[a].task.subtasks) |-> TaskValue(o, o[a].task.subtasks[j])]]

PlanValue(o, plan) ==
  [c \in CategorySet |->
     [j \in 1..Len(o[plan[c]].items) |-> TaskValue(o, o[plan[c]].items[j])]]

\* The pending top-level Tasks of a plan (lines 447-451).
PendingObjects(o, plan) ==
  UNION { {o[plan[c]].items[j] : j \in 1..Len(o[plan[c]].items)} : c \in CategorySet }
    \cap {a \in 1..Len(o) : o[a].kind = "task" /\ o[a].task.status = "pending"}

\* What the next-steps stage hands to _merge_tasks in one call: no task or
\* one new Task.
NewTaskLists == {<<>>} \cup {<<[spec |-> s, id |-> MaxTasks]>> : s \in TaskSpecs}

\* The planner's plan, as objects.
InitMerge ==
  /\ InitWith("registry")
  /\ AuxIdle
  /\ \E l \in TaskLists(MaxBatch, 0) :
       LET p == AllocPlan(<<>>, l)
       IN merge_call = [objs |-> p.objs, plan |-> p.plan, existing |-> p.plan,
                        before |-> PlanValue(p.objs, p.plan), count |-> 0,
                        phase |-> "planned", iterations |-> <<>>]

\* The numbering that starts at zero.
IterationNumberFromZero(count) == count

\* Line 185: iteration_number = iteration_count + 1.
IterationNumber(count) == count + 1

\* Lines 184-189: the TaskIteration of a pass, with a deep copy of the plan.
\* at is a history field: the value of the copy when it was made.
NewIteration(o, plan, count, summary) ==
  LET c == deepcopy_plan(o, plan)
  IN [objs |-> c.objs,
      record |-> [iteration_number |-> IterationNumber(count), tasks |-> c.plan,
                  execution_summary |-> summary, agent_decisions |-> <<>>,
                  at |-> [tasks |-> PlanValue(c.objs, c.plan),
                          execution_summary |-> summary]]]

\* Lines 181-190, 439-515: a pass of the executor settles every pending
\* top-level Task of the plan, writing into the Task objects; then generate()
\* appends the TaskIteration of the pass.
PassOnObjects ==
  /\ merge_call.phase \in {"planned", "merged"}
  /\ \E done \in SUBSET PendingObjects(merge_call.objs, merge_call.plan) :
       LET pending == PendingObjects(merge_call.objs, merge_call.plan)
           o1 == [a \in 1..Len(merge_call.objs) |->
                    IF a \in pending
                    THEN [merge_call.objs[a] EXCEPT !.task.status =
                            IF a \in done THEN "completed" ELSE "failed"]
                    ELSE merge_call.objs[a]]
           it == NewIteration(o1, merge_call.plan, merge_call.count,
                              [total_count |-> Cardinality(pending),
                               completed_count |-> Cardinality(done),
                               failed_count |-> Cardinality(pending \ done)])
       IN merge_call' =
            [merge_call EXCEPT !.objs = it.objs,
                               !.iterations = Append(@, it.record),
                               !.phase = "executed"]
  /\ UNCHANGED <<run_vars, store_vars, session_vars, aux_vars>>

\* Lines 658-662 and 220-221: the decision of the next-steps stage goes to
\* the last TaskIteration; task_structure = _merge_tasks(task_structure,
\* new_tasks), with new Task objects, while the loop goes on.
MergeCall ==
  /\ merge_call.phase = "executed"
  /\ merge_call.count < max_iterations
  /\ \E l \in NewTaskLists :
       LET new == AllocPlan(merge_call.objs, l)
           m == merge_task_objects(new.objs, merge_call.plan, new.plan)
       IN merge_call' =
            [objs |-> m.objs, plan |-> m.plan, existing |-> merge_call.plan,
             before |-> PlanValue(merge_call.objs, merge_call.plan),
             count |-> merge_call.count + 1, phase |-> "merged",
             iterations |-> [merge_call.iterations EXCEPT
                               ![Len(merge_call.iterations)].agent_decisions =
                                 Append(@, Len(l))]]
  /\ UNCHANGED <<run_vars, store_vars, session_vars, aux_vars>>

NextMerge ==
  \/ PassOnObjects
  \/ MergeCall

SpecMerge == InitMerge /\ [][NextMerge]_vars

\* ---------------------------------------------------- one oracle call
InitParse ==
  /\ InitWith("registry")
  /\ pool_call = NoPoolCall
  /\ history_call = NoHistoryCall
  /\ merge_call = NoMergeCall
  /\ \E client \in {"answers", "raises"}, text \in Texts \cup {NoText} :
       parse_call = [NoParseCall EXCEPT !.phase = "start", !.client = client,
                                        !.text = text]
  /\ sessions = NoSessions
  /\ route_call = NoRouteCall
  /\ rule_call = NoRuleCall

CallLlm ==
  /\ parse_call.phase = "start"
  /\ parse_call' = [parse_call EXCEPT
                      !.phase = "called",
                      !.response = call_llm(parse_call.client, parse_call.text)]
  /\ UNCHANGED <<rest_vars, sessions, route_call, rule_call, pool_call, history_call>>

ParseJsonResponse ==
  /\ parse_call.phase = "called"
  /\ parse_call' = [parse_call EXCEPT
                      !.phase = "parsed",
                      !.result = parse_json_response(parse_call.response)]
  /\ UNCHANGED <<rest_vars, sessions, route_call, rule_call, pool_call, history_call>>

NextParse ==
  \/ CallLlm
  \/ ParseJsonResponse

SpecParse == InitParse /\ [][NextParse]_vars

\* ------------------------------------------------------------ generate()
\* One call of generate() together with the session store and the
\* conversation history. The executor's pass is taken by its summary; the
\* oracle, its client and the database may fail.

user_query == "q"

HumanMessage(content) == [type |-> "human", content |-> content]

AIMessage(content) == [type |-> "ai", content |-> content]

\* What _call_llm returns when a text is asked for: the text, "{}" after a
\* failed call, or no text at all.
ReplyTexts == {"text", "{}", None}

\* What the oracle's answer comes to once parsed: a structured answer, an
\* empty one ("{}" or text that is no JSON), or no text, on which
\* _parse_json_response and strip() raise.
OracleAnswers == {"structured", "empty", "none"}

\* The updates a stage hands to get_proposed_state_diff after a structured
\* answer: records for the tasks list (the default) or what the oracle
\* proposes, here a destination. After an empty answer it is the empty dict.
ProposalNames == {"put_task", "set_destination", "note"}

AllocProposal(h, name) ==
  IF name = "empty"
  THEN [heap |-> Append(h, Dict(NoFields)), addr |-> Len(h) + 1]
  ELSE AllocUpdate(h, name)

\* Truth value of a dict: it has an entry.
Truthy(h, a) == \E k \in Keys : h[a].fields[k] # Missing

\* add_task(task): the record is appended unless a record has its id.
add_task(h, root, id) ==
  LET n == Len(h)
      h1 == Append(h, Dict(Field2("task_id", Scalar(id), "status", Scalar("in_progress"))))
      l == h[root].fields["tasks"].r
  IN IF id \in ExistingIds(h, l)
     THEN [heap |-> h1, added |-> FALSE]
     ELSE [heap |-> AppendItem(h1, l, Ref(n + 1)), added |-> TRUE]

\* The root agent's writes with the test of has_sufficient_info left out.
root_agent_updates_always(h, root, ok, v, id) ==
  LET h1 == IF v # "" THEN update_travel_info(h, root, v) ELSE h
      r == add_task(h1, root, id)
  IN [heap |-> r.heap, wrote |-> (v # "" \/ r.added)]

\* Lines 298-344: the root agent's writes. With sufficient information the
\* extracted destination v (if any) is merged into travel_info and the
\* user's intention is recorded in tasks; otherwise nothing is written.
root_agent_updates(h, root, ok, v, id) ==
  IF ok
  THEN LET h1 == IF v # "" THEN update_travel_info(h, root, v) ELSE h
           r == add_task(h1, root, id)
       IN [heap |-> r.heap, wrote |-> (v # "" \/ r.added)]
  ELSE [heap |-> h, wrote |-> FALSE]

\* Lines 686-692: one {task_id, status: done} record for every record of the
\* tasks list of current_state that is not done.
RECURSIVE TasksToUpdate(_, _, _, _)
TasksToUpdate(h, items, j, acc) ==
  IF j > Len(items) THEN [heap |-> h, items |-> acc]
  ELSE IF h[items[j].r].fields["status"] = Scalar("done")
       THEN TasksToUpdate(h, items, j + 1, acc)
       ELSE TasksToUpdate(
              Append(h, Dict(Field2("task_id",
                                    IF h[items[j].r].fields["task_id"] = Missing
                                    THEN Scalar(None)
                                    ELSE h[items[j].r].fields["task_id"],
                                    "status", Scalar("done")))),
              items, j + 1, Append(acc, Ref(Len(h) + 1)))

\* The result of a stage that proposes nothing.
NoProposal(h) ==
  [heap |-> h, proposed_updates |-> 0, current_state |-> 0, proposed_state |-> 0]

\* The final stage writing its updates into the store's state itself.
final_summary_commits(h, root, cur) ==
  LET t == TasksToUpdate(h, h[h[cur].fields["tasks"].r].items, 1, <<>>)
      n == Len(t.heap)
      h2 == t.heap \o << List(t.items), Dict(Field1("tasks", Ref(n + 1))) >>
  IN IF t.items = <<>> THEN NoProposal(h)
     ELSE get_proposed_state_diff_inplace(h2, root, n + 2)

\* Lines 684-703 of _generate_final_summary: the diff that marks the tasks of
\* current_state done, or no diff when all of them are.
final_summary_diff(h, root, cur) ==
  LET t == TasksToUpdate(h, h[h[cur].fields["tasks"].r].items, 1, <<>>)
      n == Len(t.heap)
      h2 == t.heap \o << List(t.items), Dict(Field1("tasks", Ref(n + 1))) >>
  IN IF t.items = <<>> THEN NoProposal(h)
     ELSE get_proposed_state_diff(h2, root, n + 2)

DiffOf(d, name) ==
  [name |-> name, proposed_updates |-> d.proposed_updates,
   current_state |-> d.current_state, proposed_state |-> d.proposed_state]

\* Lines 165-167, 211-213, 241-243: generate() commits the proposed_updates of
\* a stage's diff when there are any.
CommitDiff ==
  IF diff.proposed_updates # 0 /\ Truthy(heap, diff.proposed_updates)
  THEN /\ heap' = deep_merge(heap, state, diff.proposed_updates)
       /\ saved' = save_state(heap', state)
  ELSE UNCHANGED <<heap, saved>>

\* The error boundary with the history written outside a try.
error_boundary_unguarded(hist, db) ==
  IF db
  THEN [pc |-> "done", returned |-> [kind |-> "apology", text |-> "apology"],
        history |-> hist \o <<HumanMessage(user_query), AIMessage("apology")>>]
  ELSE [pc |-> "raised", returned |-> NoReturn, history |-> hist]

\* The error boundary without the write to the history.
error_boundary_silent(hist, db) ==
  [pc |-> "done", returned |-> [kind |-> "apology", text |-> "apology"],
   history |-> hist]

\* Lines 258-272: the handler of generate(). The exchange is written to the
\* history if the database lets it, and the apology is returned.
error_boundary(hist, db) ==
  [pc |-> "done", returned |-> [kind |-> "apology", text |-> "apology"],
   history |-> IF db
               THEN hist \o <<HumanMessage(user_query), AIMessage("apology")>>
               ELSE hist]

\* What the steps of generate() below leave alone.
SessionFrame ==
  UNCHANGED <<exec_mode, task_structure, task_cache, pending_tasks, fut,
              cached_response, failed_count, next_steps, oracle_calls,
              state, held, ops, last_op, last_update, env, start, merge_call,
              aux_vars>>

\* Lines 102, 274-356: the root agent. Reading the chat history needs the
\* database and the oracle needs its client; an answer without text makes
\* _parse_json_response raise. The writes depend on has_sufficient_info.
RootAgent ==
  /\ pc = "root"
  /\ actor' = "root"
  /\ \/ /\ ~(env.db /\ env.client)
        /\ pc' = "except"
        /\ UNCHANGED <<heap, saved, sufficient>>
     \/ /\ env.db /\ env.client
        /\ pc' = "except"
        /\ UNCHANGED <<heap, saved, sufficient>>
     \/ /\ env.db /\ env.client
        /\ \E ok \in BOOLEAN : \E v \in {"", "d2"} : \E id \in {"t2"} :
             LET w == root_agent_updates(heap, state, ok, v, id)
             IN /\ heap' = get_state(w.heap, state).heap
                /\ saved' = IF w.wrote THEN save_state(w.heap, state) ELSE saved
                /\ sufficient' = IF ok THEN "yes" ELSE "no"
                /\ pc' = IF ok THEN "planner" ELSE "clarify"
  /\ UNCHANGED <<iteration_count, iterations, exec_calls, completed_count,
                 diff, history, returned>>
  /\ SessionFrame

\* Lines 104-151: the clarification reply is asked of the oracle, the
\* exchange is written to the history and the reply is returned.
Clarify ==
  /\ pc = "clarify"
  /\ actor' = "orchestrator"
  /\ \E reply \in ReplyTexts :
       /\ history' = history \o <<HumanMessage(user_query), AIMessage(reply)>>
       /\ returned' = [kind |-> "clarification", text |-> reply]
  /\ pc' = "done"
  /\ UNCHANGED <<iteration_count, iterations, exec_calls, completed_count,
                 heap, saved, diff, sufficient>>
  /\ SessionFrame

\* Lines 160, 358-437: the planner builds the plan and asks for the diff of
\* the updates it proposes.
Planner ==
  /\ pc = "planner"
  /\ actor' = "planner"
  /\ \E answer \in OracleAnswers :
       IF answer = "none"
       THEN /\ pc' = "except"
            /\ UNCHANGED <<heap, diff>>
       ELSE \E name \in (IF answer = "empty" THEN {"empty"} ELSE ProposalNames) :
              LET u == AllocProposal(heap, name)
                  d == get_proposed_state_diff(u.heap, state, u.addr)
              IN /\ heap' = d.heap
                 /\ diff' = DiffOf(d, name)
                 /\ pc' = "commit_planner"
  /\ UNCHANGED <<iteration_count, iterations, exec_calls, completed_count,
                 saved, history, returned, sufficient>>
  /\ SessionFrame

\* Lines 161-167.
CommitPlanner ==
  /\ pc = "commit_planner"
  /\ actor' = "orchestrator"
  /\ CommitDiff
  /\ pc' = "loop"
  /\ UNCHANGED <<iteration_count, iterations, exec_calls, completed_count,
                 diff, history, returned, sufficient>>
  /\ SessionFrame

\* Lines 173-201: one pass of the executor, by its summary, and the
\* TaskIteration recorded for it.
ExecutorPass ==
  /\ pc = "loop"
  /\ iteration_count < max_iterations
  /\ actor' = "executor"
  /\ exec_calls' = exec_calls + 1
  /\ iterations' = Append(iterations, [iteration_number |-> iteration_count + 1])
  /\ \E c \in 0..1 :
       /\ completed_count' = c
       /\ pc' = IF c = 0 THEN "final" ELSE "next_steps"
  /\ UNCHANGED <<iteration_count, heap, saved, diff, history, returned, sufficient>>
  /\ SessionFrame

\* Line 173: the loop ends at the cap.
LoopCap ==
  /\ pc = "loop"
  /\ iteration_count >= max_iterations
  /\ actor' = "orchestrator"
  /\ pc' = "final"
  /\ UNCHANGED <<iteration_count, iterations, exec_calls, completed_count,
                 heap, saved, diff, history, returned, sufficient>>
  /\ SessionFrame

\* Lines 204-209, 575-667: the next-steps stage. Without a callback it
\* proposes nothing; with one it asks the oracle and asks for the diff of the
\* proposed updates.
NextSteps ==
  /\ pc = "next_steps"
  /\ actor' = "next_steps"
  /\ \/ /\ diff' = NoDiff
        /\ heap' = get_state(heap, state).heap
        /\ pc' = "commit_next_stop"
     \/ \E answer \in OracleAnswers :
          IF answer = "none"
          THEN /\ pc' = "except"
               /\ UNCHANGED <<heap, diff>>
          ELSE \E name \in (IF answer = "empty" THEN {"empty"} ELSE ProposalNames) :
                 LET c == get_state(heap, state)
                     u == AllocProposal(c.heap, name)
                     d == get_proposed_state_diff(u.heap, state, u.addr)
                 IN /\ heap' = d.heap
                    /\ diff' = DiffOf(d, name)
                    /\ pc' \in (IF answer = "empty" THEN {"commit_next_stop"}
                                ELSE {"commit_next_stop", "commit_next_more"})
  /\ UNCHANGED <<iteration_count, iterations, exec_calls, completed_count,
                 saved, history, returned, sufficient>>
  /\ SessionFrame

\* Lines 211-217: the commit of the next-steps proposal, and the end of the
\* loop when no more tasks are needed.
CommitNext ==
  /\ pc \in {"commit_next_stop", "commit_next_more"}
  /\ actor' = "orchestrator"
  /\ CommitDiff
  /\ pc' = IF pc = "commit_next_stop" THEN "final" ELSE "merge"
  /\ UNCHANGED <<iteration_count, iterations, exec_calls, completed_count,
                 diff, history, returned, sufficient>>
  /\ SessionFrame

\* Lines 220-230: the merge of the new tasks; the loop goes on while a task
\* is pending.
MergeStep ==
  /\ pc = "merge"
  /\ actor' = "merger"
  /\ iteration_count' = iteration_count + 1
  /\ pc' \in {"loop", "final"}
  /\ UNCHANGED <<iterations, exec_calls, completed_count,
                 heap, saved, diff, history, returned, sufficient>>
  /\ SessionFrame

\* Lines 235-239, 669-708: the final stage writes the summary and asks for
\* the diff that marks the tasks done; strip() raises on an answer without
\* text.
FinalStage ==
  /\ pc = "final"
  /\ actor' = "final"
  /\ \E reply \in ReplyTexts :
       IF reply = None
       THEN /\ pc' = "except"
            /\ heap' = get_state(heap, state).heap
            /\ UNCHANGED diff
       ELSE LET c == get_state(heap, state)
                d == final_summary_diff(c.heap, state, c.val.r)
            IN /\ heap' = d.heap
               /\ diff' = DiffOf(d, IF d.proposed_updates = 0 THEN "" ELSE "final")
               /\ pc' = "commit_final"
  /\ UNCHANGED <<iteration_count, iterations, exec_calls, completed_count,
                 saved, history, returned, sufficient>>
  /\ SessionFrame

\* Lines 241-256, 812-829: the commit of the final proposal; the exchange is
\* written to the history and the summary is returned.
CommitFinal ==
  /\ pc = "commit_final"
  /\ actor' = "orchestrator"
  /\ CommitDiff
  /\ history' = history \o <<HumanMessage(user_query), AIMessage("text")>>
  /\ returned' = [kind |-> "summary", text |-> "text"]
  /\ pc' = "done"
  /\ UNCHANGED <<iteration_count, iterations, exec_calls, completed_count,
                 diff, sufficient>>
  /\ SessionFrame

\* Lines 258-272: an exception has reached the handler of generate().
ErrorBoundary ==
  /\ pc = "except"
  /\ actor' = "orchestrator"
  /\ LET r == error_boundary(history, env.db)
     IN /\ pc' = r.pc
        /\ returned' = r.returned
        /\ history' = r.history
  /\ UNCHANGED <<iteration_count, iterations, exec_calls, completed_count,
                 heap, saved, diff, sufficient>>
  /\ SessionFrame

\* A session at its first call of generate(), and one that holds the record
\* and the exchange of an earlier call.
Sessions ==
  { [heap |-> DefaultHeap, history |-> <<>>],
    [heap |-> add_task(DefaultHeap, 1, "t1").heap,
     history |-> <<HumanMessage("q0"), AIMessage("a0")>>] }

\* A call of generate(): the session is new or has the record and the
\* exchange of an earlier call; the client is configured or not, the database
\* answers or not.
InitSession ==
  /\ pc = "root"
  /\ exec_mode = "registry"
  /\ task_structure = EmptyPlan
  /\ iteration_count = 0
  /\ iterations = <<>>
  /\ task_cache = [id \in TaskIds |-> Absent]
  /\ pending_tasks = <<>>
  /\ fut = <<>>
  /\ cached_response = <<>>
  /\ completed_count = 0
  /\ failed_count = 0
  /\ next_steps = NoNextSteps
  /\ exec_calls = 0
  /\ oracle_calls = 0
  /\ \E s \in Sessions : heap = s.heap /\ history = s.history
  /\ state = 1
  /\ saved = make_json_serializable(heap, Ref(1))
  /\ held = <<>>
  /\ ops = 0
  /\ last_op = "init"
  /\ last_update = ""
  /\ diff = NoDiff
  /\ returned = NoReturn
  /\ actor = ""
  /\ env \in [client : BOOLEAN, db : BOOLEAN]
  /\ sufficient = "unknown"
  /\ start = [json |-> saved, history |-> history]
  /\ merge_call = NoMergeCall /\ AuxIdle

NextSession ==
  \/ RootAgent
  \/ Clarify
  \/ Planner
  \/ CommitPlanner
  \/ ExecutorPass
  \/ LoopCap
  \/ NextSteps
  \/ CommitNext
  \/ MergeStep
  \/ FinalStage
  \/ CommitFinal
  \/ ErrorBoundary

SpecSession == InitSession /\ [][NextSession]_vars

\* The clarification branch and the handler run to their return statements:
\* nothing in them waits.
SpecSessionFair == SpecSession /\ WF_vars(Clarify) /\ WF_vars(ErrorBoundary)

\* ------------------------------------------------ requests on sessions
InitSessions ==
  /\ InitWith("registry")
  /\ pool_call = NoPoolCall
  /\ history_call = NoHistoryCall
  /\ merge_call = NoMergeCall
  /\ parse_call = NoParseCall
  /\ sessions = NoSessions
  /\ route_call = NoRouteCall
  /\ rule_call = NoRuleCall

\* The operation f of session s happens in the world and in solo[s].
SessionOp(s, name, wrote, new, alone) ==
  /\ sessions.ops < MaxSessionOps
  /\ sessions' = [world |-> new,
                  solo |-> [sessions.solo EXCEPT ![s] = alone],
                  last |-> IF wrote THEN [sessions.last EXCEPT ![s] = name]
                           ELSE sessions.last,
                  wrote |-> IF wrote THEN [sessions.wrote EXCEPT ![s] = @ \cup {name}]
                            ELSE sessions.wrote,
                  ops |-> sessions.ops + 1, op |-> name, on |-> s]
  /\ UNCHANGED <<rest_vars, parse_call, route_call, rule_call, pool_call, history_call>>

OpenAgent ==
  \E s \in SessionIds :
    /\ ~sessions.world.agent[s].live
    /\ SessionOp(s, "open", FALSE, open_agent(sessions.world, s),
                 open_agent(sessions.solo[s], s))

CommitState ==
  \E s \in SessionIds, u \in SessionUpdates :
    /\ sessions.world.agent[s].live
    /\ SessionOp(s, "commit", TRUE, commit(sessions.world, s, u),
                 commit(sessions.solo[s], s, u))

AddMessage ==
  \E s \in SessionIds, m \in {HumanMessage(user_query), AIMessage("text")} :
    /\ sessions.world.agent[s].live
    /\ SessionOp(s, "append", TRUE, add_message(sessions.world, s, m),
                 add_message(sessions.solo[s], s, m))

\* The clearSession request needs no agent.
ClearSession ==
  \E s \in SessionIds :
    /\ sessions.op \in {"none", "open", "commit", "append", "clear", "close"}
    /\ SessionOp(s, "clear", TRUE, clear_session_request(sessions.world, s),
                 clear_session_request(sessions.solo[s], s))

CloseAgent ==
  \E s \in SessionIds :
    /\ sessions.world.agent[s].live
    /\ SessionOp(s, "close", FALSE, close_agent(sessions.world, s),
                 close_agent(sessions.solo[s], s))

NextSessions ==
  \/ OpenAgent
  \/ CommitState
  \/ AddMessage
  \/ ClearSession
  \/ CloseAgent

SpecSessions == InitSessions /\ [][NextSessions]_vars

\* ------------------------------------------------------ one tool call
InitRouting ==
  /\ InitWith("registry")
  /\ pool_call = NoPoolCall
  /\ history_call = NoHistoryCall
  /\ merge_call = NoMergeCall
  /\ parse_call = NoParseCall
  /\ sessions = NoSessions
  /\ rule_call = NoRuleCall
  /\ \E f \in FunctionNames, ps \in SUBSET ParameterNames, o \in ToolBehaviours :
       route_call = [NoRouteCall EXCEPT !.phase = "start", !.function_name = f,
                                        !.parameters = ps, !.tool = o]

ExecuteToolByName ==
  /\ route_call.phase = "start"
  /\ LET r == execute_tool_call(route_call.function_name, route_call.parameters,
                                route_call.tool)
     IN route_call' = [route_call EXCEPT !.phase = "returned",
                                         !.result = r.result,
                                         !.invoked = r.invoked]
  /\ UNCHANGED <<rest_vars, parse_call, sessions, rule_call, pool_call, history_call>>

SpecRouting == InitRouting /\ [][ExecuteToolByName]_vars

\* ------------------------------------------- one merge into a category
InitRule ==
  /\ InitWith("registry")
  /\ pool_call = NoPoolCall
  /\ history_call = NoHistoryCall
  /\ merge_call = NoMergeCall
  /\ parse_call = NoParseCall
  /\ sessions = NoSessions
  /\ route_call = NoRouteCall
  /\ \E l \in RuleLists, f \in RuleFunctions :
       rule_call = [phase |-> "start", existing |-> ExistingList(l),
                    new |-> <<RuleTask(f, FALSE, "pending", Len(l) + 1)>>,
                    merged |-> <<>>]

\* Lines 710-735 for the category maps.
MergeTasksCall ==
  /\ rule_call.phase = "start"
  /\ rule_call' =
       [rule_call EXCEPT
          !.phase = "merged",
          !.merged = merge_tasks([EmptyPlan EXCEPT !["maps"] = rule_call.existing],
                                 [EmptyPlan EXCEPT !["maps"] = rule_call.new])["maps"]]
  /\ UNCHANGED <<rest_vars, parse_call, sessions, route_call, pool_call, history_call>>

SpecRule == InitRule /\ [][MergeTasksCall]_vars

\* ------------------------------------------------- one pool of workers
InitPool ==
  /\ InitWith("registry")
  /\ merge_call = NoMergeCall
  /\ parse_call = NoParseCall
  /\ sessions = NoSessions
  /\ route_call = NoRouteCall
  /\ rule_call = NoRuleCall
  /\ history_call = NoHistoryCall
  /\ \E l \in ShortLists \cup CrowdLists :
       pool_call = [NoPoolCall EXCEPT !.phase = "start", !.plan = PoolPlan(l)]

PoolFrame == UNCHANGED <<rest_vars, parse_call, sessions, route_call, rule_call,
                         history_call>>

\* Lines 446-469: the pending tasks are collected and sorted and the pool is
\* created; with nothing pending the executor returns at once.
OpenPool ==
  /\ pool_call.phase = "start"
  /\ LET refs == SortByPriority(pool_call.plan, CollectPending(pool_call.plan))
     IN pool_call' = [pool_call EXCEPT
                        !.refs = refs,
                        !.phase = IF refs = <<>> THEN "returned" ELSE "open"]
  /\ PoolFrame

\* Line 473: the main thread hands the next task of the sorted list to the
\* pool, which puts it at the end of its queue.
Submit ==
  /\ pool_call.phase = "open"
  /\ pool_call.submitted < Len(pool_call.refs)
  /\ pool_call' = [pool_call EXCEPT !.submitted = @ + 1]
  /\ PoolFrame

\* A worker that holds no work item takes the first one of the queue.
Take ==
  /\ pool_call.phase = "open"
  /\ pool_call.taken < pool_call.submitted
  /\ WorkerFree(pool_call)
  /\ pool_call' = [pool_call EXCEPT !.taken = @ + 1]
  /\ PoolFrame

\* Line 521: the routine of the k-th item begins on the worker that took it.
Begin(k) ==
  /\ pool_call.phase = "open"
  /\ k <= pool_call.taken
  /\ TaskAt(pool_call.plan, pool_call.refs[k]).status = "pending"
  /\ pool_call' = [pool_call EXCEPT
                     !.plan = SetTask(@, pool_call.refs[k],
                                      StartSingleTask(TaskAt(@, pool_call.refs[k]),
                                                      task_cache))]
  /\ PoolFrame

\* Lines 523-573: the routine of the k-th item runs to its return, which
\* frees the worker. The executor's actions settle how a routine ends; here
\* the tool answers.
Finish(k) ==
  /\ pool_call.phase = "open"
  /\ k <= pool_call.taken
  /\ TaskAt(pool_call.plan, pool_call.refs[k]).status = "in_progress"
  /\ pool_call' = [pool_call EXCEPT
                     !.plan = SetTask(@, pool_call.refs[k],
                                      [TaskAt(@, pool_call.refs[k]) EXCEPT
                                         !.status = "completed"])]
  /\ PoolFrame

\* Lines 476-515: every future has been yielded and the pool is shut down.
JoinPool ==
  /\ pool_call.phase = "open"
  /\ pool_call.submitted = Len(pool_call.refs)
  /\ pool_call.taken = pool_call.submitted
  /\ Busy(pool_call) = {}
  /\ pool_call' = [pool_call EXCEPT !.phase = "returned"]
  /\ PoolFrame

NextPool ==
  \/ OpenPool
  \/ Submit
  \/ Take
  \/ \E k \in 1..Len(pool_call.refs) : Begin(k)
  \/ \E k \in 1..Len(pool_call.refs) : Finish(k)
  \/ JoinPool

SpecPool == InitPool /\ [][NextPool]_vars

\* ------------------------------------------ two requests of one session
InitHistory ==
  /\ InitWith("registry")
  /\ merge_call = NoMergeCall
  /\ parse_call = NoParseCall
  /\ sessions = NoSessions
  /\ route_call = NoRouteCall
  /\ rule_call = NoRuleCall
  /\ pool_call = NoPoolCall
  /\ \E s \in SessionIds, h \in EarlierHistories :
       history_call =
         [NoHistoryCall EXCEPT
            !.phase = "running",
            !.session = s,
            !.rows = IF h = <<>> THEN {}
                     ELSE cache_set({}, get_database_path(s), cache_key(s),
                                    MessagesValue(h), s)]

HistoryFrame == UNCHANGED <<rest_vars, parse_call, sessions, route_call, rule_call,
                            pool_call>>

\* The message a run is about to add: main_agent.py 814-815, 148-149 and
\* 267-268, the user's message first.
MessageOf(r, step) ==
  IF step < 2 THEN HumanMessage(QueryOf(r)) ELSE AIMessage(ReplyOf(r))

\* chat_history.py 45: current_messages = self.messages, a read of the
\* session's row by the thread of run r.
ReadMessages(r) ==
  /\ history_call.phase = "running"
  /\ history_call.run[r].step \in {0, 2}
  /\ history_call' =
       [history_call EXCEPT
          !.run[r].step = @ + 1,
          !.run[r].current_messages =
             messages([NoWorld EXCEPT !.rows = history_call.rows],
                      history_call.session)]
  /\ HistoryFrame

\* chat_history.py 46-56: the message is appended to the list that was read
\* and the list is written to the session's row.
WriteMessages(r) ==
  /\ history_call.phase = "running"
  /\ history_call.run[r].step \in {1, 3}
  /\ history_call' =
       [history_call EXCEPT
          !.run[r].step = @ + 1,
          !.rows = cache_set(@, get_database_path(history_call.session),
                             cache_key(history_call.session),
                             MessagesValue(
                               Append(history_call.run[r].current_messages,
                                      MessageOf(r, history_call.run[r].step))),
                             history_call.session)]
  /\ HistoryFrame

NextHistory ==
  \/ \E r \in Runs : ReadMessages(r)
  \/ \E r \in Runs : WriteMessages(r)

SpecHistory == InitHistory /\ [][NextHistory]_vars

\* ------------------------------------------------------------------ claims
\* A task that has reached the end of its lifecycle.
Settled(t) == t.status \in {"completed", "failed"}

StatusStep(a, b) ==
  \/ a = b
  \/ a = "pending" /\ b = "in_progress"
  \/ a = "in_progress" /\ b \in {"completed", "failed"}

\* One step of a task: its status moves along the lifecycle, and a settled
\* task is not run again.
TaskStep(t, u) ==
  /\ StatusStep(t.status, u.status)
  /\ Settled(t) => (u.calls = t.calls /\ u.attempts = t.attempts
                      /\ u.response = t.response)

Dispatched(it) == {TaskAt(it.tasks, it.dispatched[k]) : k \in 1..Len(it.dispatched)}

\* C1: whatever the plan, the oracle and the tools do, the loop of generate()
\* calls the executor at most max_iterations times and the run reaches Done
\* through final summarization; once the iteration counter has reached the cap
\* there is no further executor call and no further next-steps oracle call.
C1_IterationCap ==
  /\ [](exec_calls <= max_iterations)
  /\ [][iteration_count >= max_iterations =>
          (exec_calls' = exec_calls /\ oracle_calls' = oracle_calls
             /\ pc' \in {"summary", "done"})]_vars
  /\ <>(pc = "done")

\* The cap ended a run whose plan still holds a pending task.
C1_Witness ==
  /\ pc = "done"
  /\ exec_calls = max_iterations
  /\ iteration_count = max_iterations
  /\ NewPending(task_structure) > 0

\* C2: the status of every task, top-level or subtask, only moves along
\* pending -> in_progress -> {completed | failed}; a completed or failed task
\* keeps its status and is not called again, also after a merge has copied the
\* plan; every executor call dispatches pending tasks only.
C2_StatusMonotone ==
  /\ [][\A c \in CategorySet : \A i \in 1..Len(task_structure[c]) :
          /\ i <= Len(task_structure'[c])
          /\ TaskStep(task_structure[c][i], task_structure'[c][i])
          /\ \A j \in 1..Len(task_structure[c][i].subtasks) :
                /\ j <= Len(task_structure'[c][i].subtasks)
                /\ TaskStep(task_structure[c][i].subtasks[j],
                            task_structure'[c][i].subtasks[j])]_vars
  /\ [][exec_calls' # exec_calls =>
          \A k \in 1..Len(pending_tasks') :
            TaskAt(task_structure, pending_tasks'[k]).status = "pending"]_vars

\* A later executor call runs on a merged plan that holds a completed task
\* with a subtask, and does not dispatch it.
C2_Witness ==
  /\ pc = "executing"
  /\ exec_calls >= 2
  /\ \E k \in 1..Len(fut) : fut[k] = "done"
  /\ \E c \in CategorySet : \E i \in 1..Len(task_structure[c]) :
       /\ task_structure[c][i].status = "completed"
       /\ task_structure[c][i].calls = 1
       /\ Len(task_structure[c][i].subtasks) > 0
       /\ \A k \in 1..Len(pending_tasks) : pending_tasks[k] # <<c, i>>

\* C3: at every point retry_count <= max_retries and the callable was invoked
\* at most max_retries times for the task; a failed task with retry_count =
\* max_retries went through exactly max_retries passes and each of them raised.
C3_RetryBound ==
  \A t \in AllTasks(task_structure) :
    /\ t.retry_count <= t.max_retries
    /\ t.calls <= t.max_retries
    /\ (t.status = "failed" /\ t.retry_count = t.max_retries)
         => (t.attempts = t.max_retries /\ t.raised = t.max_retries)

\* A task whose tool raised in every call has used up its retries.
C3_Witness ==
  \E t \in AllTasks(task_structure) :
    /\ t.status = "failed"
    /\ t.retry_count = t.max_retries
    /\ t.calls = t.max_retries
    /\ t.tool_raised = t.max_retries

\* C4: once the callable has returned an error-carrying result the task is
\* failed with that error and is not called again; the pass that returns it
\* leaves retry_count (0 on the first pass) and the cache as they were.
C4_ErrorResult ==
  /\ [](\A t \in AllTasks(task_structure) :
          t.last.kind = "error" =>
            /\ t.status = "failed"
            /\ t.error = t.last.val
            /\ t.retry_count = t.raised
            /\ t.attempts = 1 => t.retry_count = 0)
  /\ [][\A c \in CategorySet : \A i \in 1..Len(task_structure[c]) :
          LET t == task_structure[c][i]
              u == task_structure'[c][i]
          IN /\ (u.calls = t.calls + 1 /\ u.last.kind = "error")
                  => (u.retry_count = t.retry_count /\ task_cache' = task_cache)
             /\ t.last.kind = "error"
                  => (u.calls = t.calls /\ u.attempts = t.attempts)]_vars

\* The executor has returned and a task failed on an error result of its
\* first call, with nothing cached under its id.
C4_Witness ==
  /\ pc # "executing"
  /\ \E t \in AllTasks(task_structure) :
       /\ t.last.kind = "error"
       /\ t.status = "failed"
       /\ t.attempts = 1
       /\ t.calls = 1
       /\ t.retry_count = 0
       /\ task_cache[t.task_id] = Absent

\* C5: a task whose callable raised k times and then returned a result is
\* completed with retry_count = k < max_retries, the result as its response,
\* and k + 1 calls.
C5_RaiseThenSucceed ==
  \A t \in AllTasks(task_structure) :
    t.last.kind = "ok" =>
      /\ t.status = "completed"
      /\ t.raised < t.max_retries
      /\ t.retry_count = t.raised
      /\ t.calls = t.raised + 1
      /\ t.response = t.last.val

\* The spec's case: two raises, then success.
C5_Witness ==
  \E t \in AllTasks(task_structure) :
    /\ t.last.kind = "ok"
    /\ t.raised = 2
    /\ t.retry_count = 2
    /\ t.calls = 3
    /\ t.status = "completed"

\* C6: a task whose tool function raised, invoked through the registry as
\* the executor wires it, is failed only after max_retries calls.
C6_RaisingToolRetried ==
  \A t \in AllTasks(task_structure) :
    (t.status = "failed" /\ t.tool_raised > 0)
      => (t.calls = t.max_retries /\ t.retry_count = t.max_retries)

\* C7: a task dispatched while the cache holds an entry for its task_id is
\* not handed to the callable and ends completed, cached, with the stored
\* response.
C7_CacheIdempotent ==
  \A t \in AllTasks(task_structure) :
    t.at_dispatch # Absent =>
      /\ t.calls = 0
      /\ Settled(t) => (t.status = "completed" /\ t.cached
                          /\ t.response = t.at_dispatch)

C9_SummaryAgrees ==
  \A n \in 1..Len(iterations) :
    LET it == iterations[n]
        s == it.execution_summary
        ended(st) == {k \in 1..Len(it.dispatched) :
                        TaskAt(it.tasks, it.dispatched[k]).status = st}
    IN /\ s.total_count = Len(it.dispatched)
       /\ s.completed_count = Cardinality(ended("completed"))
       /\ s.failed_count = Cardinality(ended("failed"))
       /\ s.total_count = s.completed_count + s.failed_count

\* The spec's scenario: a flights task of priority 2 and a places task of
\* priority 0 both succeed.
C9_Witness ==
  \E n \in 1..Len(iterations) :
    /\ iterations[n].execution_summary =
         [total_count |-> 2, completed_count |-> 2, failed_count |-> 0]
    /\ \A t \in Dispatched(iterations[n]) : t.status = "completed"
    /\ {t.priority : t \in Dispatched(iterations[n])} = {0, 2}

\* C10: a write into a value returned by get_state(), at any depth, leaves
\* the store's state as it was; get_state() returns the store's state; and
\* the store's state is at every moment the one the last commit saved.
C10_NoAlias ==
  /\ [][last_op' = "mutate" /\ ops' # ops =>
          make_json_serializable(heap', Ref(state'))
            = make_json_serializable(heap, Ref(state))]_vars
  /\ [][last_op' = "get" /\ ops' # ops =>
          make_json_serializable(heap', Ref(held'[Len(held')]))
            = make_json_serializable(heap, Ref(state))]_vars
  /\ [](make_json_serializable(heap, Ref(state)) = saved)

\* A caller changed a record of the tasks list of a returned value, and a
\* later get_state() returned the state without that change.
C10_Witness ==
  /\ last_op = "get"
  /\ Len(held) = 2
  /\ \E a \in Reachable(heap, held[1]) :
       /\ heap[a].fields["task_id"] = Scalar("t2")
       /\ heap[a].fields["status"] = Scalar("changed")
  /\ \E a \in Reachable(heap, held[2]) :
       /\ heap[a].fields["task_id"] = Scalar("t2")
       /\ heap[a].fields["status"] = Scalar("in_progress")
  /\ \E a \in Reachable(heap, state) :
       /\ heap[a].fields["task_id"] = Scalar("t2")
       /\ heap[a].fields["status"] = Scalar("in_progress")

\* The JSON text of the object at address a.
Json(h, a) == make_json_serializable(h, Ref(a))

\* C11: get_proposed_state_diff does not commit. Whatever the state and the
\* updates, the call leaves every object of the store's state as it was, so
\* the state reads the same after it; what was last persisted for the session
\* is the same; and the current_state it returns reads as the state did
\* before the call.
C11_ProposeDoesNotCommit ==
  [][(last_op' = "propose" /\ ops' = ops + 1) =>
       /\ state' = state
       /\ \A a \in Reachable(heap, state) : heap'[a] = heap[a]
       /\ Json(heap', state') = Json(heap, state)
       /\ saved' = saved
       /\ Json(heap', diff'.current_state) = Json(heap, state)]_vars

\* A diff was asked for on a store that already holds a task record, and the
\* proposed state differs from the state the store keeps.
C11_Witness ==
  /\ last_op = "propose"
  /\ Len(heap[heap[state].fields["tasks"].r].items) > 0
  /\ Json(heap, diff.proposed_state) # Json(heap, state)
  /\ Json(heap, diff.current_state) = Json(heap, state)

\* C12: propose and commit agree. When a diff is asked for in some state and
\* the same updates are committed in that state, the state of the store after
\* the commit reads as the proposed_state the diff returned.
C12_ProposeCommitAgree ==
  [][(last_op = "propose" /\ last_op' = "commit" /\ ops' = ops + 1
        /\ last_update' = diff.name) =>
       Json(heap', state') = Json(heap, diff.proposed_state)]_vars

\* A diff marking task t1 done was proposed on a store holding t1, and the
\* commit of these updates has made the store read as the proposed state.
C12_Witness ==
  /\ last_op = "commit"
  /\ ops = 3
  /\ diff.name = "done_task"
  /\ last_update = "done_task"
  /\ Json(heap, state) = Json(heap, diff.proposed_state)
  /\ Json(heap, state) # Json(heap, diff.current_state)
  /\ Json(heap, diff.current_state) # Json(DefaultHeap, 1)

\* The updates of the form {tasks: [records]} whose records all carry a
\* task_id.
TaskUpdates == {"put_task", "done_task", "dup_task"}

\* C13: merge upsert law. Committing an update of the form {tasks: [records]},
\* whose records carry a task_id, a second time right after the first leaves
\* the state as the first commit made it.
C13_UpsertIdempotent ==
  [][(last_op = "commit" /\ last_op' = "commit" /\ ops' = ops + 1
        /\ last_update \in TaskUpdates /\ last_update' = last_update) =>
       Json(heap', state') = Json(heap, state)]_vars

\* The same law for the updates whose records carry distinct task ids.
C13_DistinctIdsIdempotent ==
  [][(last_op = "commit" /\ last_op' = "commit" /\ ops' = ops + 1
        /\ last_update \in TaskUpdates \ {"dup_task"}
        /\ last_update' = last_update) =>
       Json(heap', state') = Json(heap, state)]_vars

\* The records of the tasks list of the named updates, as [task_id, status]
\* with task_id "" for a record that has none.
IncomingRecords(name) ==
  LET u == AllocUpdate(<<>>, name)
      l == u.heap[u.addr].fields["tasks"].r
  IN [j \in 1..Len(u.heap[l].items) |->
        [task_id |-> TaskIdOf(u.heap, u.heap[l].items[j]),
         status |-> u.heap[u.heap[l].items[j].r].fields["status"]]]

\* The number of records of a sequence whose id is not in the set ids.
RECURSIVE CountNew(_, _)
CountNew(recs, ids) ==
  IF recs = <<>> THEN 0
  ELSE (IF recs[1].task_id \in ids THEN 0 ELSE 1) + CountNew(Tail(recs), ids)

\* The tasks list of the store's state.
StoreTasks(h) == h[h[state].fields["tasks"].r].items

\* C14, the tasks list: a commit of updates holding a tasks list keeps every
\* existing record at its position, leaves a record whose task_id is not in
\* the updates as it was, overwrites the status of the first record with a
\* matching task_id (and nothing else of it; the last incoming record with
\* the id prevails), and appends one record for each incoming record whose
\* task_id is absent or not in the list as the commit found it.
TasksUpserted(name) ==
  LET recs == IncomingRecords(name)
      ids == ExistingIds(heap, heap[state].fields["tasks"].r)
      old == StoreTasks(heap)
      new == StoreTasks(heap')
  IN /\ Len(new) = Len(old) + CountNew(recs, ids)
     /\ \A j \in 1..Len(old) :
          /\ new[j] = old[j]
          /\ (\A r \in 1..Len(recs) : recs[r].task_id # TaskIdOf(heap, old[j]))
               => heap'[old[j].r] = heap[old[j].r]
          /\ \A k \in Keys \ {"status"} :
               heap'[old[j].r].fields[k] = heap[old[j].r].fields[k]
     /\ \A r \in 1..Len(recs) :
          (/\ recs[r].task_id \in ids
           /\ \A q \in (r + 1)..Len(recs) : recs[q].task_id # recs[r].task_id) =>
            heap'[FirstWithId(heap, heap[state].fields["tasks"].r,
                              recs[r].task_id).r].fields["status"] = recs[r].status
     /\ \A r \in 1..Len(recs) :
          recs[r].task_id \notin ids =>
            \E j \in (Len(old) + 1)..Len(new) :
              /\ TaskIdOf(heap', new[j]) = recs[r].task_id
              /\ heap'[new[j].r].fields["status"] = recs[r].status
     /\ Json(heap', heap'[state].fields["travel_info"].r)
          = Json(heap, heap[state].fields["travel_info"].r)

\* C14, the other keys: an incoming list under another key takes the place of
\* the existing list whatever that held, and an incoming mapping is merged
\* into the existing mapping, whose other entries stay.
OthersReplacedOrMerged(name) ==
  LET ti == heap[state].fields["travel_info"].r
  IN /\ heap'[state].fields["travel_info"] = Ref(ti)
     /\ StoreTasks(heap') = StoreTasks(heap)
     /\ name = "set_poi" =>
          /\ Json(heap', heap'[ti].fields["poi"].r) = <<"[", "str", "p1", "]">>
          /\ heap'[ti].fields["destination"] = heap[ti].fields["destination"]
     /\ name = "set_destination" =>
          /\ heap'[ti].fields["destination"] = Scalar("d1")
          /\ heap'[ti].fields["poi"] = heap[ti].fields["poi"]

\* C14: merge asymmetry. The tasks list is upserted by task_id; any other
\* list is replaced wholesale and mappings are merged recursively.
C14_MergeAsymmetry ==
  [][(last_op' = "commit" /\ ops' = ops + 1 /\ last_update' \in UpdateNames) =>
       IF last_update' \in {"set_poi", "set_destination"}
       THEN OthersReplacedOrMerged(last_update')
       ELSE TasksUpserted(last_update')]_vars

\* The store held the records t2 and t1, in this order, and a commit marking
\* t1 done has changed the second record and left the first one alone.
C14_Witness ==
  /\ last_op = "commit"
  /\ last_update = "done_task"
  /\ Len(StoreTasks(heap)) = 2
  /\ heap[StoreTasks(heap)[1].r].fields
       = Field2("task_id", Scalar("t2"), "status", Scalar("in_progress"))
  /\ heap[StoreTasks(heap)[2].r].fields
       = Field2("task_id", Scalar("t1"), "status", Scalar("done"))

\* What a read returns for an entry of the state, and for an entry of its
\* travel_info: the JSON text of the entry of the copy get_state() makes.
ReadEntry(h, k) ==
  LET res == get_state(h, state)
  IN make_json_serializable(res.heap, res.heap[res.val.r].fields[k])

ReadTravelInfo(h, k) ==
  LET res == get_state(h, state)
      ti == res.heap[res.val.r].fields["travel_info"].r
  IN make_json_serializable(res.heap, res.heap[ti].fields[k])

StateChanges ==
  \/ state' # state
  \/ \E a \in Reachable(heap, state) : heap'[a] # heap[a]
  \/ Json(heap', state') # Json(heap, state)
  \/ saved' # saved

\* C16: single-writer discipline. During a run the session state changes
\* only in steps of the root agent and in the commits of generate(); the
\* planner, the next-steps and final stages, the executor and the merger
\* leave it alone, and what a commit writes is the diff the stage before it
\* proposed.
C16_SingleWriter ==
  [][/\ StateChanges => actor' \in {"root", "orchestrator"}
     /\ (StateChanges /\ actor' = "orchestrator") =>
          /\ actor \in {"planner", "next_steps", "final"}
          /\ diff.proposed_updates # 0
          /\ Json(heap', state') = Json(heap, diff.proposed_state)]_vars

\* A run has ended with its summary after the planner's, a next-steps and the
\* final proposal were committed, and the state is not the one it began with.
C16_Witness ==
  /\ pc = "done"
  /\ returned.kind = "summary"
  /\ iteration_count >= 1
  /\ diff.name = "final"
  /\ Json(heap, state) = Json(heap, diff.proposed_state)
  /\ Json(heap, state) # start.json

\* C17: _merge_tasks is pure with respect to the existing plan. After it has
\* returned, and whatever is written into the returned plan afterwards, the
\* existing plan has the tasks, the order, the statuses and the subtasks it
\* had when the call was made, and no list or Task object of the returned
\* plan is an object of the existing plan.
C17_MergePure ==
  merge_call.count > 0 =>
    /\ PlanValue(merge_call.objs, merge_call.existing) = merge_call.before
    /\ PlanObjects(merge_call.objs, merge_call.plan)
         \cap PlanObjects(merge_call.objs, merge_call.existing) = {}

\* A second merge has attached a new Task to a completed parent of a plan
\* that held a subtask already, and the executor has since written into the
\* returned plan.
C17_Witness ==
  /\ merge_call.count = 2
  /\ merge_call.phase = "executed"
  /\ \E c \in CategorySet :
       \E j \in 1..Len(merge_call.objs[merge_call.plan[c]].items) :
         /\ Len(merge_call.objs[merge_call.objs[merge_call.plan[c]].items[j]]
                  .task.subtasks) = 2
         /\ Len(merge_call.before[c][j].subtasks) = 1
  /\ PlanValue(merge_call.objs, merge_call.plan) # merge_call.before

\* C18: task-level failures never abort a run. After a pass in which some
\* tasks failed and at least one completed, generate() does not go to its
\* handler but determines the next steps from the partial results; the
\* oracle is consulted exactly when a completed task requires a callback;
\* and the run is left through the final summary only.
C18_FailuresDoNotAbort ==
  /\ [][(pc = "executing" /\ pc' # "executing"
           /\ failed_count' > 0 /\ completed_count' > 0) =>
          pc' = "next_steps"]_vars
  /\ [][(pc = "next_steps" /\ pc' # "next_steps") =>
          /\ pc' \in {"merging", "summary"}
          /\ (oracle_calls' = oracle_calls + 1) <=> CallbackRequired(task_structure)
          /\ oracle_calls' \in {oracle_calls, oracle_calls + 1}]_vars
  /\ [][pc' = "done" => pc \in {"summary", "done"}]_vars
  /\ [](pc # "except")

\* A run has ended whose first pass had a failed and a completed task, after
\* the oracle was consulted and a second pass was made.
C18_Witness ==
  /\ pc = "done"
  /\ Len(iterations) >= 2
  /\ iterations[1].execution_summary.failed_count > 0
  /\ iterations[1].execution_summary.completed_count > 0
  /\ oracle_calls >= 1

\* The exchange of this run: the user's query, then the reply.
Exchange(reply) == <<HumanMessage(user_query), AIMessage(reply)>>

\* C19: generate() never raises. No exception leaves it: whichever stage
\* raised (the root agent without an oracle client or a database, a stage
\* whose oracle gave no text), the handler tries to write the query and the
\* apology to the history, which succeeds if the database answers, and
\* generate() returns the apology.
C19_NeverRaises ==
  /\ [](pc # "raised")
  /\ [][(pc = "except" /\ pc' # "except") =>
          /\ pc' = "done"
          /\ returned' = [kind |-> "apology", text |-> "apology"]
          /\ history' = IF env.db THEN history \o Exchange("apology") ELSE history]_vars
  /\ [](pc = "done" => returned # NoReturn)
  /\ (pc = "except") ~> (pc = "done" /\ returned.kind = "apology")

\* Without an oracle client the root agent raised, and the call returned the
\* apology after writing the exchange to the history.
C19_Witness ==
  /\ pc = "done"
  /\ ~env.client
  /\ env.db
  /\ sufficient = "unknown"
  /\ returned.kind = "apology"
  /\ history = start.history \o Exchange("apology")

\* C20: clarification early return. Once the clarification check has not
\* reported sufficient information, generate() is in its clarification
\* branch or has returned: no planning, no executor call, no TaskIteration,
\* the session state and what is persisted of it are as the run found them;
\* and the call returns the clarification reply with the history extended by
\* the user's query and that reply, in this order.
C20_ClarificationReturn ==
  /\ [](sufficient = "no" =>
          /\ pc \in {"clarify", "done"}
          /\ exec_calls = 0
          /\ iterations = <<>>
          /\ Json(heap, state) = start.json
          /\ saved = start.json)
  /\ (sufficient = "no") ~>
        (/\ pc = "done"
         /\ returned.kind = "clarification"
         /\ history = start.history \o Exchange(returned.text))

\* A session that holds an earlier exchange was asked for more information:
\* the clarification reply was returned and the history now has both
\* exchanges.
C20_Witness ==
  /\ sufficient = "no"
  /\ pc = "done"
  /\ returned = [kind |-> "clarification", text |-> "text"]
  /\ Len(history) = 4
  /\ history[3] = HumanMessage(user_query)
  /\ history[4] = AIMessage("text")
  /\ Json(heap, state) = start.json
\* C21 (not upheld by the code): whatever the oracle call produces, a valid
\* object, an object inside code fences or other text, unparseable text, an
\* empty or absent text, or a failed client call, parsing ends with a
\* mapping and never with an exception.
C21_ParseNeverRaises ==
  parse_call.phase = "parsed" => parse_call.result.kind = "dict"

\* C21, for the responses that carry a text with a JSON object or with no
\* JSON document at all: the parse ends with the object's mapping, which is
\* the empty mapping when the text holds no object, and after a failed
\* client call it is the empty mapping.
C21_TextDegrades ==
  /\ parse_call.phase = "parsed" /\ parse_call.client = "raises"
       => parse_call.result = JsonObject({})
  /\ parse_call.phase = "parsed" /\ parse_call.response # NoText
       => /\ parse_call.result.kind \in {"dict", "int"}
          /\ parse_call.result.kind = "int"
               => \E i \in 1..Len(parse_call.response) : parse_call.response[i] = "1"

C21_Witness ==
  /\ parse_call.phase = "parsed"
  /\ parse_call.response = <<"fence", "json", "x">>
  /\ parse_call.result = JsonObject({})

\* C22: what a session reads, its state, its conversation history and its
\* agent's state, is what it would read had the operations on the other
\* session (commits, appends, clearing) not happened.
C22_SessionIndependence ==
  \A s \in SessionIds : View(sessions.world, s) = View(sessions.solo[s], s)

C22_Witness ==
  /\ sessions.wrote["A"] = {"commit", "clear"}
  /\ sessions.op = "clear" /\ sessions.on = "A"
  /\ View(sessions.world, "B").state.destination = "d2"
  /\ View(sessions.world, "B").messages # <<>>

\* C23: after a session is cleared, and until something is written to it
\* again, an access to the session loads the default state and an empty
\* conversation history, and an agent opened then holds the default state.
C23_ClearedSessionIsDefault ==
  \A s \in SessionIds :
    sessions.last[s] = "clear"
      => /\ load_state(ensure_state_file_exists(sessions.world), s) = DefaultState
         /\ messages(sessions.world, s) = <<>>
         /\ sessions.op = "open" /\ sessions.on = s
              => sessions.world.agent[s].state = DefaultState

C23_Witness ==
  /\ sessions.last["A"] = "clear"
  /\ sessions.op = "open" /\ sessions.on = "A"
  /\ sessions.wrote["A"] = {"commit", "append", "clear"}
  /\ sessions.world.agent["A"].state = DefaultState

\* C24 (not upheld by the code): a call whose function name resolves to a
\* flight tool and whose parameters hold a hotel parameter returns the
\* routing error without invoking the tool; so does a call whose name resolves
\* to a hotel tool and whose parameters are flight parameters only.
C24_RoutingValidated ==
  route_call.phase = "returned"
    => /\ /\ Lookup(route_call.function_name) \in FlightEntries
          /\ route_call.parameters \cap hotel_params # {}
          => route_call.result = RoutingError /\ ~route_call.invoked
       /\ /\ Lookup(route_call.function_name) \in HotelEntries
          /\ route_call.parameters # {}
          /\ route_call.parameters \subseteq flight_params
          => route_call.result = RoutingError /\ ~route_call.invoked

\* C24, for the names of the two lists of the validation as they are
\* written there: the three flight tools of the list with a hotel parameter,
\* and the hotel tools with flight parameters only, return the routing error
\* and are not invoked.
C24_ListedNamesValidated ==
  route_call.phase = "returned"
    => /\ /\ route_call.function_name \in flight_tools
          /\ route_call.parameters \cap hotel_params # {}
          => route_call.result = RoutingError /\ ~route_call.invoked
       /\ /\ route_call.function_name \in hotel_tools
          /\ route_call.parameters # {}
          /\ route_call.parameters \subseteq flight_params
          => route_call.result = RoutingError /\ ~route_call.invoked

C24_Witness ==
  /\ route_call.phase = "returned"
  /\ route_call.function_name = Suffixed("search_flights")
  /\ route_call.parameters = {"city", "origin"}
  /\ route_call.result = RoutingError

\* C25 (not upheld by the code): the next steps after a pass consider the
\* tasks completed in that pass only: when none of the tasks the pass has
\* dispatched is completed and flagged agent_call_required, the oracle is not
\* consulted for that pass.
C25_OnlyThisPassConsidered ==
  \A n \in 1..Len(iterations) :
    (~\E t \in Dispatched(iterations[n]) :
        t.agent_call_required /\ t.status = "completed")
      => iterations[n].agent_decisions = <<>>

\* C25, for the plan as a whole: the oracle is consulted after a pass
\* exactly when some top-level task of the plan, of this pass or of an
\* earlier one, is completed and flagged agent_call_required.
C25_WholePlanConsidered ==
  \A n \in 1..Len(iterations) :
    iterations[n].agent_decisions # <<>>
      => \E c \in CategorySet : \E i \in 1..Len(iterations[n].tasks[c]) :
           /\ iterations[n].tasks[c][i].agent_call_required
           /\ iterations[n].tasks[c][i].status = "completed"

\* C26 (not upheld by the code): when an executor call has returned, no
\* task of the plan is pending any more, be it a top-level entry of a
\* category or a subtask the merger has attached to a parent.
C26_NoPendingAfterPass ==
  \A n \in 1..Len(iterations) :
    \A t \in AllTasks(iterations[n].tasks) : t.status # "pending"

\* C26, for the top-level entries: when an executor call has returned, no
\* top-level task of a category is pending.
C26_TopLevelCollected ==
  \A n \in 1..Len(iterations) :
    \A c \in CategorySet : \A i \in 1..Len(iterations[n].tasks[c]) :
      iterations[n].tasks[c][i].status # "pending"

\* C27 (not upheld by the code, for the subtasks of C26): the merge step
\* sends the controller to final summarization exactly when the merged plan
\* holds no pending task; with a pending task and the cap not reached it
\* sends it back to the loop, whose next executor call dispatches every
\* pending task of the plan.
C27_DoneIffNothingPending ==
  /\ [][pc = "merging" =>
          /\ pc' = "summary" <=>
               \A t \in AllTasks(task_structure') : t.status # "pending"
          /\ (\E t \in AllTasks(task_structure') : t.status = "pending")
               /\ iteration_count' < max_iterations
               => pc' = "loop"]_vars
  /\ [][exec_calls' # exec_calls =>
          \A t \in AllTasks(task_structure) :
            t.status = "pending" =>
              \E k \in 1..Len(pending_tasks') :
                TaskAt(task_structure, pending_tasks'[k]) = t]_vars

\* C27, for the top-level entries: the merge step sends the controller to
\* final summarization exactly when no top-level task of the merged plan is
\* pending, and the next executor call dispatches every pending top-level
\* task.
C27_DoneIffNoTopLevelPending ==
  /\ [][pc = "merging" =>
          (pc' = "summary" <=>
             \A c \in CategorySet : \A i \in 1..Len(task_structure'[c]) :
               task_structure'[c][i].status # "pending")]_vars
  /\ [][exec_calls' # exec_calls =>
          \A c \in CategorySet : \A i \in 1..Len(task_structure[c]) :
            task_structure[c][i].status = "pending" =>
              \E k \in 1..Len(pending_tasks') : pending_tasks'[k] = <<c, i>>]_vars

\* C28: a pass of the executor that completes no task, a pass over a plan
\* without a pending task included, is the last one: the run is at final
\* summarization or done, the oracle was not consulted for that pass, the
\* plan is the one the pass left (no merge), no executor call follows, and
\* final summarization ends the run.
C28_StallRule ==
  /\ [](\A n \in 1..Len(iterations) :
          iterations[n].execution_summary.completed_count = 0
            => /\ n = Len(iterations)
               /\ pc \in {"summary", "done"}
               /\ iterations[n].agent_decisions = <<>>
               /\ exec_calls = n
               /\ task_structure = iterations[n].tasks)
  /\ [][pc = "executing" /\ pc' # "executing" /\ completed_count' = 0
          => pc' = "summary" /\ oracle_calls' = oracle_calls]_vars
  /\ [][pc = "summary" => pc' = "done"]_vars

\* The second pass runs a task and completes none; the run has ended.
C28_Witness ==
  /\ pc = "done"
  /\ Len(iterations) = 2
  /\ iterations[2].execution_summary.completed_count = 0
  /\ iterations[2].execution_summary.total_count > 0

\* The planner returns no task: the first pass has nothing to run.
C28_WitnessEmptyPlan ==
  /\ pc = "done"
  /\ Len(iterations) = 1
  /\ iterations[1].execution_summary.total_count = 0

\* The merged list when the new task goes under the existing task at p, and
\* when it goes to the end of the list (p = 0).
Attached(existing, new_task, p) ==
  IF p = 0 THEN Append(existing, new_task)
  ELSE [existing EXCEPT ![p].subtasks =
          Append(@, [new_task EXCEPT !.parent_task_id = existing[p].task_id])]

FirstOf(candidates) ==
  IF candidates = {} THEN 0
  ELSE CHOOSE p \in candidates : \A q \in candidates : p <= q

\* C29 (not upheld by the code): a new task becomes a subtask of the first
\* existing task of its category that is flagged agent_call_required, is
\* completed and has the same first token of its function name as the new
\* task, and carries that task's id as parent_task_id; without such a task it
\* becomes the last top-level entry and has no parent.
C29_ParentRule ==
  rule_call.phase = "merged" =>
    LET new_task == rule_call.new[1]
        candidates ==
          {p \in 1..Len(rule_call.existing) :
             /\ rule_call.existing[p].agent_call_required
             /\ rule_call.existing[p].status = "completed"
             /\ FirstToken(rule_call.existing[p].function) = FirstToken(new_task.function)}
    IN rule_call.merged = Attached(rule_call.existing, new_task, FirstOf(candidates))

\* C29, with the comparison the code makes: the parent is the first flagged
\* and completed task whose first token is a beginning of the new task's
\* function name.
C29_PrefixRule ==
  rule_call.phase = "merged" =>
    LET new_task == rule_call.new[1]
        candidates ==
          {p \in 1..Len(rule_call.existing) :
             /\ rule_call.existing[p].agent_call_required
             /\ rule_call.existing[p].status = "completed"
             /\ StartsWith(new_task.function, FirstToken(rule_call.existing[p].function))}
    IN rule_call.merged = Attached(rule_call.existing, new_task, FirstOf(candidates))

\* C30: after k passes of the executor the run holds k TaskIteration
\* records, numbered 1..k in the order of their creation; the task snapshot
\* and the execution summary of each record are what they were when the
\* record was appended, whatever later passes and merges have written, and no
\* object of a snapshot is an object of the plan or of another snapshot.
C30_IterationRecords ==
  LET its == merge_call.iterations
      passes == IF merge_call.phase = "executed" THEN merge_call.count + 1
                ELSE merge_call.count
  IN merge_call.phase # "none" =>
       /\ Len(its) = passes
       /\ \A n \in 1..Len(its) :
            /\ its[n].iteration_number = n
            /\ PlanValue(merge_call.objs, its[n].tasks) = its[n].at.tasks
            /\ its[n].execution_summary = its[n].at.execution_summary
            /\ PlanObjects(merge_call.objs, its[n].tasks)
                 \cap PlanObjects(merge_call.objs, merge_call.plan) = {}
            /\ \A m \in 1..Len(its) :
                 m # n => PlanObjects(merge_call.objs, its[n].tasks)
                            \cap PlanObjects(merge_call.objs, its[m].tasks) = {}

\* Three passes and two merges have happened: the first record has a
\* decision, and the plan has moved on from the snapshots of the first two.
C30_Witness ==
  /\ merge_call.phase = "executed"
  /\ Len(merge_call.iterations) = 3
  /\ merge_call.iterations[1].agent_decisions # <<>>
  /\ PlanValue(merge_call.objs, merge_call.plan) # merge_call.iterations[1].at.tasks
  /\ PlanValue(merge_call.objs, merge_call.plan) # merge_call.iterations[2].at.tasks

\* The tasks of the pool's plan whose status is in_progress.
InProgress(p) ==
  {k \in 1..Len(p.refs) : TaskAt(p.plan, p.refs[k]).status = "in_progress"}

\* C31: while an executor call runs, at most max_workers (10) tasks have
\* status in_progress at the same time, however many tasks were dispatched,
\* and a worker takes a task only when it holds no unfinished one: the number
\* of tasks taken and not finished never exceeds max_workers, grows only by a
\* worker that was free, and falls only by a routine that has run to its end.
C31_BoundedPool ==
  [][/\ Cardinality(InProgress(pool_call')) <= max_workers
     /\ Cardinality(Busy(pool_call')) <= max_workers
     /\ pool_call'.taken > pool_call.taken =>
          /\ Cardinality(Busy(pool_call)) < max_workers
          /\ pool_call'.taken = pool_call.taken + 1
     /\ \A k \in 1..Len(pool_call.refs) :
          LET before == TaskAt(pool_call.plan, pool_call.refs[k]).status
              after == TaskAt(pool_call'.plan, pool_call'.refs[k]).status
          IN /\ before = "in_progress" => after \in {"in_progress", "completed"}
             /\ before = "completed" => after = "completed"]_vars

\* More tasks than workers are dispatched, the pool is full, and a task waits
\* in the queue.
C31_Witness ==
  /\ pool_call.phase = "open"
  /\ Len(pool_call.refs) > max_workers
  /\ Cardinality(InProgress(pool_call)) = max_workers
  /\ pool_call.taken < pool_call.submitted

\* The place of a category in the order of the plan's categories.
CategoryIndex(c) == CHOOSE i \in 1..Len(Categories) : Categories[i] = c

\* Plan order: category order, then position in the category's list.
PlanBefore(r1, r2) ==
  \/ CategoryIndex(r1[1]) < CategoryIndex(r2[1])
  \/ r1[1] = r2[1] /\ r1[2] < r2[2]

PriorityAt(p, k) == TaskAt(p.plan, p.refs[k]).priority

\* C32 as stated: no task starts (its routine sets in_progress) before every
\* task of the same executor call with a strictly higher priority has started.
C32_StartsInPriorityOrder ==
  [][\A k \in 1..Len(pool_call.refs) :
       /\ TaskAt(pool_call.plan, pool_call.refs[k]).status = "pending"
       /\ TaskAt(pool_call'.plan, pool_call'.refs[k]).status = "in_progress"
       => \A j \in 1..Len(pool_call.refs) :
            PriorityAt(pool_call, j) > PriorityAt(pool_call, k)
              => TaskAt(pool_call.plan, pool_call.refs[j]).status # "pending"]_vars

\* C32, amended: the pending tasks are handed to the pool in order of priority
\* descending, tasks of equal priority in plan order, and the workers take
\* them from the pool's queue in that order: every pending top-level task is
\* in the list once, and a task is submitted, and is taken by a worker, only
\* after every task of strictly higher priority and every task of equal
\* priority that precedes it in the plan has been. The routines of tasks that
\* different workers hold may begin, and may end, in any order.
C32_DispatchOrder ==
  [][LET p == pool_call' IN
     /\ pool_call.phase = "start" =>
          /\ {p.refs[k] : k \in 1..Len(p.refs)} =
               {r \in CategorySet \X (1..MaxSorted + max_workers) :
                  r[2] <= Len(pool_call.plan[r[1]])}
          /\ \A i, j \in 1..Len(p.refs) :
               i < j => /\ p.refs[i] # p.refs[j]
                        /\ PriorityAt(p, i) >= PriorityAt(p, j)
                        /\ PriorityAt(p, i) = PriorityAt(p, j)
                             => PlanBefore(p.refs[i], p.refs[j])
     /\ pool_call.phase = "open" =>
          /\ p.refs = pool_call.refs
          /\ p.submitted \in {pool_call.submitted, pool_call.submitted + 1}
          /\ p.taken \in {pool_call.taken, pool_call.taken + 1}
          /\ p.taken <= p.submitted
          /\ \A k \in (p.taken + 1)..Len(p.refs) :
               TaskAt(p.plan, p.refs[k]).status = "pending"]_vars

\* The sort has changed the order of a plan that holds two tasks of one
\* priority and the workers have taken every task; the routine of the last
\* task has begun and that of the first has not.
C32_Witness ==
  /\ pool_call.phase = "open"
  /\ pool_call.taken = Len(pool_call.refs)
  /\ pool_call.refs # CollectPending(pool_call.plan)
  /\ \E i, j \in 1..Len(pool_call.refs) :
       i < j /\ PriorityAt(pool_call, i) = PriorityAt(pool_call, j)
  /\ TaskAt(pool_call.plan, pool_call.refs[1]).status = "pending"
  /\ TaskAt(pool_call.plan, pool_call.refs[Len(pool_call.refs)]).status = "in_progress"

\* C33: the annotation records of the session state are keyed by task_id: in
\* every state the store reaches by commits (update_state with tasks lists,
\* add_task), no two records of state.tasks carry the same task_id.
C33_KeyedByTaskId ==
  \A i, j \in 1..Len(StoreTasks(heap)) :
    (i # j /\ TaskIdOf(heap, StoreTasks(heap)[i]) # "")
      => TaskIdOf(heap, StoreTasks(heap)[i]) # TaskIdOf(heap, StoreTasks(heap)[j])

\* C34: the run-scoped cache holds only successful responses. Every entry is
\* the response the callable returned without error to a task of that
\* task_id, which ended completed by that call and keeps the response; a step
\* changes an entry only by such a call, a pass that raised or returned an
\* error payload leaves the cache as it was, and no entry is removed.
C34_CacheHoldsSuccesses ==
  [][/\ \A id \in TaskIds :
          task_cache'[id] # Absent =>
            \E t \in AllTasks(task_structure') :
              /\ t.task_id = id
              /\ t.status = "completed"
              /\ ~t.cached
              /\ t.last = [kind |-> "ok", val |-> task_cache'[id]]
              /\ t.response = task_cache'[id]
     /\ \A id \in TaskIds :
          /\ task_cache[id] # Absent => task_cache'[id] # Absent
          /\ task_cache'[id] # task_cache[id] =>
               \E c \in CategorySet : \E i \in 1..Len(task_structure[c]) :
                 /\ task_structure[c][i].task_id = id
                 /\ task_structure[c][i].status = "in_progress"
                 /\ task_structure'[c][i].status = "completed"
                 /\ task_structure'[c][i].calls = task_structure[c][i].calls + 1
                 /\ task_structure'[c][i].response = task_cache'[id]
     /\ (\E c \in CategorySet : \E i \in 1..Len(task_structure[c]) :
           /\ i <= Len(task_structure'[c])
           /\ task_structure'[c][i].attempts = task_structure[c][i].attempts + 1
           /\ \/ task_structure'[c][i].raised = task_structure[c][i].raised + 1
              \/ task_structure'[c][i].status = "failed")
          => task_cache' = task_cache]_vars

\* The cache holds an entry, one task has failed on an error payload and
\* another after raised passes, and neither has left an entry.
C34_Witness ==
  /\ \E id \in TaskIds : task_cache[id] # Absent
  /\ \E t \in AllTasks(task_structure) :
       /\ t.status = "failed" /\ t.calls > 0 /\ t.last.kind = "error"
       /\ task_cache[t.task_id] = Absent
  /\ \E t \in AllTasks(task_structure) :
       /\ t.status = "failed" /\ t.raised > 0
       /\ task_cache[t.task_id] = Absent

\* A history of exchanges: a user message, then an assistant message, and so
\* on.
Alternates(h) ==
  \A i \in 1..Len(h) : h[i].type = (IF i % 2 = 1 THEN "human" ELSE "ai")

C36_CompletedAtOnceWithoutError ==
  \A t \in AllTasks(task_structure) :
    (t.status = "completed" /\ t.raised = 0) => t.error = None

\* C37: after a run that ends with final summarization and its commit, every
\* annotation record of the session state's tasks list has status done,
\* whatever records the stages added during the run.
C37_AllDoneAfterSummary ==
  (pc = "done" /\ returned.kind = "summary") =>
    \A j \in 1..Len(StoreTasks(heap)) :
      heap[StoreTasks(heap)[j].r].fields["status"] = Scalar("done")

\* The records that carry a task_id are done after such a run.
C37_IdentifiedDoneAfterSummary ==
  (pc = "done" /\ returned.kind = "summary") =>
    \A j \in 1..Len(StoreTasks(heap)) :
      TaskIdOf(heap, StoreTasks(heap)[j]) # "" =>
        heap[StoreTasks(heap)[j].r].fields["status"] = Scalar("done")

\* The places of a merged category list that the existing list did not have:
\* top-level entries after the existing ones (parent 0) and subtasks after
\* the existing subtasks of an existing entry.
AddedPlaces(old, new) ==
  {<<0, i>> : i \in (Len(old) + 1)..Len(new)}
    \cup UNION { {<<i, j>> : j \in (Len(old[i].subtasks) + 1)..Len(new[i].subtasks)} :
                 i \in 1..Len(old) }

\* The task at such a place as it was before the merger set its parent.
AddedTask(new, place) ==
  IF place[1] = 0 THEN new[place[2]]
  ELSE [new[place[1]].subtasks[place[2]] EXCEPT !.parent_task_id = 0]

\* C38: merge conserves tasks. In every category the merged list begins with
\* the existing top-level tasks in their order, each with its existing
\* subtasks first and unchanged; what is added are the new tasks of the
\* category, each exactly once, as a top-level entry after the existing ones
\* or as a subtask of exactly one existing entry, whose task_id it then
\* carries as parent_task_id.
C38_MergeConserves ==
  [][pc = "merging" =>
       \A c \in CategorySet :
         LET old == task_structure[c]
             new == task_structure'[c]
             added == next_steps.new_tasks[c]
             places == AddedPlaces(old, new)
         IN /\ Len(new) >= Len(old)
            /\ \A i \in 1..Len(old) :
                 /\ Len(new[i].subtasks) >= Len(old[i].subtasks)
                 /\ [new[i] EXCEPT !.subtasks =
                       SubSeq(@, 1, Len(old[i].subtasks))] = old[i]
                 /\ \A j \in (Len(old[i].subtasks) + 1)..Len(new[i].subtasks) :
                      new[i].subtasks[j].parent_task_id = old[i].task_id
            /\ Cardinality(places) = Len(added)
            /\ \A k \in 1..Len(added) :
                 Cardinality({p \in places : AddedTask(new, p) = added[k]})
                   = Cardinality({n \in 1..Len(added) : added[n] = added[k]})
            /\ TaskCount(task_structure')
                 = TaskCount(task_structure) + TaskCount(next_steps.new_tasks)]_vars

\* One merge has put a new task under a completed parent and another new
\* task at the end of a category's list.
C38_Witness ==
  /\ pc = "loop"
  /\ iteration_count = 1
  /\ \E c \in CategorySet : \E i \in 1..Len(task_structure[c]) :
       task_structure[c][i].subtasks # <<>>
  /\ \E c \in CategorySet : \E i \in 1..Len(task_structure[c]) :
       /\ task_structure[c][i].status = "pending"
       /\ i > 1

\* The top-level tasks of the plan that carry the given task_id and whose
\* last call of the callable returned a result without error.
SuccessfulCalls(id) ==
  {ref \in CategorySet \X (1..MaxTasks) :
     /\ ref[2] <= Len(task_structure[ref[1]])
     /\ TaskAt(task_structure, ref).task_id = id
     /\ TaskAt(task_structure, ref).last.kind = "ok"}

\* C39: within one run the registry is called successfully at most once for
\* each task_id, whatever the interleaving of the workers: a second task with
\* the id, pending in the same executor call or in a later one, is served
\* from the run-scoped cache.
C39_OneSuccessfulCallPerId ==
  \A id \in TaskIds : Cardinality(SuccessfulCalls(id)) <= 1

\* The conversation of the session the two requests belong to.
StoredMessages ==
  messages([NoWorld EXCEPT !.rows = history_call.rows], history_call.session)

\* C40: no message is lost when two runs of one session overlap. Once both
\* runs have returned, the session's conversation history holds the user
\* message and the assistant message of both.
C40_NoMessageLost ==
  (\A r \in Runs : history_call.run[r].step = 4) =>
    \A r \in Runs :
      /\ \E i \in 1..Len(StoredMessages) : StoredMessages[i] = HumanMessage(QueryOf(r))
      /\ \E i \in 1..Len(StoredMessages) : StoredMessages[i] = AIMessage(ReplyOf(r))

====
